---- MODULE Spec2Model ----
(***************************************************************************)
(* A model of the arithmetic-coding core of ppm-cli: the bounded integers, *)
(* the bit buffer, the bits system, the interval, the reference models,    *)
(* the compressor and the decompressor.                                    *)
(*                                                                         *)
(* The widths are scaled down so that the state space is finite and small: *)
(* the source has INTERVAL_BITS = 33, FREQUENCY_BITS = 31 and a 64-bit     *)
(* CalculationsType; the model keeps the relations between them            *)
(* (FREQUENCY_BITS = INTERVAL_BITS - 2, CalculationsType::BITS =           *)
(* INTERVAL_BITS + FREQUENCY_BITS) and an alphabet of NumBytes byte values *)
(* followed by EOF and ESC instead of 256 byte values.                     *)
(***************************************************************************)
EXTENDS Integers, Sequences, FiniteSets, TLC

VARIABLES
    model,            \* the probability model shared by compressor and decompressor
    overflow_checks,  \* TRUE: build with overflow checks (debug), FALSE: wrapping (release)
    phase,            \* position of the codec session
    enc,              \* the Compressor
    input,            \* the load_symbol calls made so far, with their outcome
    stream,           \* bytes handed to the caller by load_symbol and finalize
    dec,              \* the Decompressor
    decoded,          \* results of the get_next_byte calls made so far
    buf,              \* a BitBuffer driven directly through its API
    itv,              \* an Interval driven directly through its API
    table,            \* a frequency table driven directly through its API
    odd_calls,        \* whether the caller's decoding loop made an odd number of calls
    last              \* the last call made: its arguments, the object before it, its outcome

vars == <<model, overflow_checks, phase, enc, input, stream, dec, decoded, buf, itv, table,
          odd_calls, last>>

codecVars == <<model, overflow_checks, phase, enc, input, stream, dec, decoded>>

----------------------------------------------------------------------------
(* Bounds and scaled sizes *)

\* number_types/sizes.rs: INTERVAL_BITS (33 in the source, scaled)
INTERVAL_BITS == 5

\* number_types/sizes.rs: FREQUENCY_BITS (31 in the source: INTERVAL_BITS - 2)
FREQUENCY_BITS == INTERVAL_BITS - 2

\* number_types/sizes.rs: CalculationsType = u64 (64 = 33 + 31 in the source)
CALCULATIONS_TYPE_BITS == INTERVAL_BITS + FREQUENCY_BITS

\* sim/symbol.rs: the number of byte values of the alphabet (256 in the source, scaled)
NumBytes == 3

\* sim/symbol.rs: UNIQUE_SYMBOLS_AMOUNT (byte values + 1 EOF + 1 ESCAPE)
UNIQUE_SYMBOLS_AMOUNT == NumBytes + 2

\* the largest number of load_symbol calls of one session
MaxSymbols == 3

\* the largest number of get_next_byte calls of one session
MaxDecodeCalls == 4

\* the largest number of bits in the directly driven BitBuffer before a call
MaxBufBits == 9

\* the largest repetitions argument given to append_repeated
MaxRepetitions == 10

\* the largest frequency in a CFI given to Interval::update directly
MaxCfiTotal == 7

\* the longest bit source given to Decompressor::new directly
MaxSourceBits == 6

\* the largest number of entries of a directly driven frequency table
MaxEntries == 3

\* the largest frequency a directly driven table is built from
MaxTableFrequency == 1

\* the largest number of add_frequency calls on one table
MaxAdds == 1

\* the largest number of add calls on one directly driven FenwickTree
MaxTreeAdds == 2

\* the largest number of bytes a BitIterator is built from directly
MaxIterBytes == 2

----------------------------------------------------------------------------
(* Bitwise operations on naturals *)

RECURSIVE BitAnd(_, _)
BitAnd(a, b) ==
    IF a = 0 \/ b = 0 THEN 0
    ELSE (a % 2) * (b % 2) + 2 * BitAnd(a \div 2, b \div 2)

RECURSIVE BitOr(_, _)
BitOr(a, b) ==
    IF a = 0 THEN b
    ELSE IF b = 0 THEN a
    ELSE (IF a % 2 = 1 \/ b % 2 = 1 THEN 1 ELSE 0) + 2 * BitOr(a \div 2, b \div 2)

RECURSIVE BitXor(_, _)
BitXor(a, b) ==
    IF a = 0 THEN b
    ELSE IF b = 0 THEN a
    ELSE (((a % 2) + (b % 2)) % 2) + 2 * BitXor(a \div 2, b \div 2)

----------------------------------------------------------------------------
(* ConstrainedNum<BITS>: number_types/constraints *)

\* ConstrainedNum::max
ConstrainedNum_max(BITS) == 2^BITS - 1

\* ConstrainedNum::new succeeds iff the value uses at most BITS bits
ConstrainedNum_new_ok(BITS, value) ==
    /\ BITS # 0
    /\ BITS <= CALCULATIONS_TYPE_BITS
    /\ value < 2^BITS

\* impl Not: the complement in CalculationsType, masked with max
not(BITS, x) == BitAnd(2^CALCULATIONS_TYPE_BITS - 1 - x, ConstrainedNum_max(BITS))

\* the shift amount of a primitive << or >> on CalculationsType: an amount of
\* the type's width or more is an arithmetic overflow, a panic where overflow
\* checks are compiled in and the amount modulo the width where they are not
shift_amount(rhs, checks) ==
    IF rhs < CALCULATIONS_TYPE_BITS THEN [status |-> "ok", rhs |-> rhs]
    ELSE IF checks THEN [status |-> "panic", rhs |-> rhs]
    ELSE [status |-> "ok", rhs |-> rhs % CALCULATIONS_TYPE_BITS]

\* impl Shr: no mask (for an amount below the width of CalculationsType)
shr(BITS, x, rhs) == x \div (2^rhs)

\* impl Shl: the shifted value is masked with max (for an amount below the
\* width of CalculationsType)
shl(BITS, x, rhs) == BitAnd((x * 2^rhs) % 2^CALCULATIONS_TYPE_BITS, ConstrainedNum_max(BITS))

\* impl BitOr: masked with max
bitor(BITS, x, rhs) == BitAnd(BitOr(x, rhs), ConstrainedNum_max(BITS))

\* impl BitXor: masked with max
bitxor(BITS, x, rhs) == BitAnd(BitXor(x, rhs), ConstrainedNum_max(BITS))

\* impl BitAnd: no mask
bitand(BITS, x, rhs) == BitAnd(x, rhs)

Frequency == 0 .. ConstrainedNum_max(FREQUENCY_BITS)

IntervalBoundary == 0 .. ConstrainedNum_max(INTERVAL_BITS)

----------------------------------------------------------------------------
(* BitsSystem: interval/bits_system.rs *)

BitsSystem_new(BITS) ==
    LET max == ConstrainedNum_max(BITS)
        half == shr(BITS, max, 1)
        one_fourth == shr(BITS, half, 1)
        three_fourths == bitor(BITS, half, one_fourth)
    IN [max |-> max, half |-> half, one_fourth |-> one_fourth,
        three_fourths |-> three_fourths]

\* Interval::system
system == BitsSystem_new(INTERVAL_BITS)

----------------------------------------------------------------------------
(* Interval: interval/mod.rs *)

Cfi(start, end, total) == [start |-> start, end |-> end, total |-> total]

full_interval == [low |-> 0, high |-> ConstrainedNum_max(INTERVAL_BITS)]

\* a validation that also accepts an interval of one value
validate_boundaries_allow_equal(new_low, new_high) == new_low <= new_high

validate_boundaries_invariant(new_low, new_high) == new_low < new_high

set_boundaries(i, new_low, new_high) ==
    IF validate_boundaries_invariant(new_low, new_high)
    THEN [status |-> "ok", itv |-> [low |-> new_low, high |-> new_high]]
    ELSE [status |-> "err", itv |-> i]

\* a set_low that writes the new low before it validates
set_low_written_first(i, new_low) ==
    IF validate_boundaries_invariant(new_low, i.high)
    THEN [status |-> "ok", itv |-> [i EXCEPT !.low = new_low]]
    ELSE [status |-> "err", itv |-> [i EXCEPT !.low = new_low]]

set_low(i, new_low) ==
    IF validate_boundaries_invariant(new_low, i.high)
    THEN [status |-> "ok", itv |-> [i EXCEPT !.low = new_low]]
    ELSE [status |-> "err", itv |-> i]

set_high(i, new_high) ==
    IF validate_boundaries_invariant(i.low, new_high)
    THEN [status |-> "ok", itv |-> [i EXCEPT !.high = new_high]]
    ELSE [status |-> "err", itv |-> i]

\* an update whose new high is the first value past the symbol's share
update_high_not_decremented(i, cfi, checks) ==
    LET width == i.high - i.low + 1
    IN IF cfi.total = 0 THEN [status |-> "panic", itv |-> i]
       ELSE
         LET low_raw  == i.low + ((width * cfi.start) \div cfi.total)
             high_raw == i.low + ((width * cfi.end) \div cfi.total)
         IN IF ~ConstrainedNum_new_ok(INTERVAL_BITS, low_raw)
               \/ ~ConstrainedNum_new_ok(INTERVAL_BITS, high_raw)
            THEN [status |-> "err", itv |-> i]
            ELSE set_boundaries(i, low_raw, high_raw)

\* Interval::update.  status "panic": division by zero, or (with overflow
\* checks) the subtraction underflows; without overflow checks the
\* subtraction wraps and IntervalBoundary::new rejects the wrapped value.
update(i, cfi, checks) ==
    LET width == i.high - i.low + 1
    IN IF cfi.total = 0 THEN [status |-> "panic", itv |-> i]
       ELSE
         LET low_raw  == i.low + ((width * cfi.start) \div cfi.total)
             high_sum == i.low + ((width * cfi.end) \div cfi.total)
             high_raw == (high_sum - 1) % 2^CALCULATIONS_TYPE_BITS
         IN IF ~ConstrainedNum_new_ok(INTERVAL_BITS, low_raw)
            THEN [status |-> "err", itv |-> i]
            ELSE IF high_sum = 0 /\ checks THEN [status |-> "panic", itv |-> i]
            ELSE IF ~ConstrainedNum_new_ok(INTERVAL_BITS, high_raw)
            THEN [status |-> "err", itv |-> i]
            ELSE set_boundaries(i, low_raw, high_raw)

Converging(bit) == [state |-> "Converging", bit |-> bit]
NearConvergence == [state |-> "NearConvergence", bit |-> FALSE]
NoConvergence == [state |-> "NoConvergence", bit |-> FALSE]

get_state(i) ==
    IF i.low >= system.half THEN Converging(TRUE)
    ELSE IF i.high < system.half THEN Converging(FALSE)
    ELSE IF i.low >= system.one_fourth /\ i.high < system.three_fourths
    THEN NearConvergence
    ELSE NoConvergence

----------------------------------------------------------------------------
(* BitBuffer: bit_buffer/mod.rs *)

BitBuffer_new == [full_bytes |-> <<>>, current_byte |-> 0, current_idx |-> 0]

save_current_byte(b) ==
    [full_bytes |-> Append(b.full_bytes, b.current_byte),
     current_byte |-> 0, current_idx |-> 0]

append(b, bit) ==
    LET byte == IF bit THEN BitOr(b.current_byte, 2^(7 - b.current_idx))
                ELSE b.current_byte
        b1 == [b EXCEPT !.current_byte = byte, !.current_idx = @ + 1]
    IN IF b1.current_idx >= 8 THEN save_current_byte(b1) ELSE b1

\* the while loop of append_repeated
RECURSIVE append_repeated_loop(_, _, _)
append_repeated_loop(b, bit_repeated, repetitions) ==
    IF b.current_idx + repetitions >= 8
    THEN append_repeated_loop(
            save_current_byte(
                [b EXCEPT !.current_byte = BitOr(@, bit_repeated \div 2^(b.current_idx))]),
            bit_repeated,
            repetitions - (8 - b.current_idx))
    ELSE [buf |-> b, repetitions |-> repetitions]

append_repeated(b, bit, repetitions) ==
    LET bit_repeated == IF bit THEN 255 ELSE 0
        r == append_repeated_loop(b, bit_repeated, repetitions)
        byte == IF r.repetitions > 0 /\ bit
                THEN BitOr(r.buf.current_byte, (255 * 2^(8 - r.repetitions)) % 256)
                ELSE r.buf.current_byte
    IN [r.buf EXCEPT !.current_byte = byte, !.current_idx = @ + r.repetitions]

\* get_complete_bytes: the bytes handed out and the buffer left behind
\* a get_complete_bytes that leaves the bytes in the buffer
get_complete_bytes_keeping(b) ==
    [bytes |-> b.full_bytes, buf |-> b]

get_complete_bytes(b) ==
    [bytes |-> b.full_bytes, buf |-> [b EXCEPT !.full_bytes = <<>>]]

len(b) == 8 * Len(b.full_bytes) + b.current_idx

\* get_leftover_bits: Option<u8> as a sequence of zero or one byte
get_leftover_bits(b) ==
    IF b.current_idx > 0 THEN <<b.current_byte>> ELSE <<>>

----------------------------------------------------------------------------
(* Symbols and the default symbol-index mapping: sim/symbol.rs, sim/mod.rs *)

Byte(b) == [tag |-> "Byte", byte |-> b]
Eof == [tag |-> "Eof", byte |-> 0]
Esc == [tag |-> "Esc", byte |-> 0]

ByteValues == 0 .. (NumBytes - 1)

Symbols == {Byte(b) : b \in ByteValues} \cup {Eof, Esc}

is_escape(symbol) == symbol.tag = "Esc"

\* DefaultSIM::get_index (every symbol is supported): Option<usize> as a
\* sequence of zero or one element
DefaultSIM_get_index(symbol) ==
    IF symbol.tag = "Byte" THEN <<symbol.byte>>
    ELSE IF symbol.tag = "Eof" THEN <<NumBytes>>
    ELSE <<NumBytes + 1>>

\* a get_symbol with Eof and Esc the other way round
get_symbol_esc_before_eof(index) ==
    IF index < NumBytes THEN <<Byte(index)>>
    ELSE IF index = NumBytes THEN <<Esc>>
    ELSE IF index = NumBytes + 1 THEN <<Eof>>
    ELSE <<>>

\* DefaultSIM::get_symbol
DefaultSIM_get_symbol(index) ==
    IF index < NumBytes THEN <<Byte(index)>>
    ELSE IF index = NumBytes THEN <<Eof>>
    ELSE IF index = NumBytes + 1 THEN <<Esc>>
    ELSE <<>>

supported_symbols_count == UNIQUE_SYMBOLS_AMOUNT

----------------------------------------------------------------------------
(* StaticFrequencyTable: frequencies/static_table.rs *)

\* the cumulative sums pushed by StaticFrequencyTable::new, before the
\* overflow check of each push
RECURSIVE cumulative(_, _, _)
cumulative(frequencies, done, accum) ==
    IF Len(done) = Len(frequencies) + 1 THEN done
    ELSE LET next == accum + frequencies[Len(done)]
         IN cumulative(frequencies, Append(done, next), next)

\* a new that accepts a cumulative sum one above Frequency::max()
new_accepting_one_more(frequencies) ==
    LET cum == cumulative(frequencies, <<0>>, 0)
    IN IF \E k \in 1 .. Len(cum) : ~(cum[k] <= ConstrainedNum_max(FREQUENCY_BITS) + 1)
       THEN [status |-> "err", cum_freqs |-> <<>>]
       ELSE [status |-> "ok", cum_freqs |-> cum]

StaticFrequencyTable_new(frequencies) ==
    LET cum == cumulative(frequencies, <<0>>, 0)
    IN IF \E k \in 1 .. Len(cum) : ~ConstrainedNum_new_ok(FREQUENCY_BITS, cum[k])
       THEN [status |-> "err", cum_freqs |-> <<>>]
       ELSE [status |-> "ok", cum_freqs |-> cum]

\* cum_freqs[index] of the source is cum_freqs[index + 1] here (1-based)
StaticFrequencyTable_get_total(cum_freqs) == cum_freqs[Len(cum_freqs)]

\* a get_cfi without the rule for an empty CFI
get_cfi_keeping_empty(cum_freqs, index) ==
    IF index + 1 >= Len(cum_freqs) THEN <<>>
    ELSE <<Cfi(cum_freqs[index + 1], cum_freqs[index + 2],
               StaticFrequencyTable_get_total(cum_freqs))>>

StaticFrequencyTable_get_cfi(cum_freqs, index) ==
    IF index + 1 >= Len(cum_freqs) THEN <<>>
    ELSE IF cum_freqs[index + 1] = cum_freqs[index + 2] THEN <<>>
    ELSE <<Cfi(cum_freqs[index + 1], cum_freqs[index + 2],
               StaticFrequencyTable_get_total(cum_freqs))>>

\* what a get_index call comes to: Some(index), None, a panic, or a loop
\* that never ends
Found(index) == [kind |-> "Some", index |-> index]
NotFound == [kind |-> "None", index |-> 0]
Panicked == [kind |-> "Panic", index |-> 0]
Diverges == [kind |-> "Diverged", index |-> 0]

\* a search that takes the end of an entry's share for part of it
RECURSIVE binary_search_end_included(_, _, _, _)
binary_search_end_included(cum_freqs, cumulative_frequency, left, right) ==
    IF ~(left <= right) THEN NotFound
    ELSE LET middle == (left + right) \div 2
         IN IF cumulative_frequency < cum_freqs[middle + 1]
            THEN IF middle = 0 THEN Panicked
                 ELSE binary_search_end_included(cum_freqs, cumulative_frequency,
                                                 left, middle - 1)
            ELSE IF cumulative_frequency > cum_freqs[middle + 2]
            THEN binary_search_end_included(cum_freqs, cumulative_frequency,
                                            middle + 1, right)
            ELSE Found(middle)

\* the binary search of StaticFrequencyTable::get_index, for right < len - 1.
\* middle - 1 with middle = 0 panics in both builds: the subtraction panics
\* with overflow checks, and wraps to usize::MAX without them, after which
\* cum_freqs[middle] is out of bounds.
RECURSIVE binary_search(_, _, _, _)
binary_search(cum_freqs, cumulative_frequency, left, right) ==
    IF ~(left <= right) THEN NotFound
    ELSE LET middle == (left + right) \div 2
         IN IF cumulative_frequency < cum_freqs[middle + 1]
            THEN IF middle = 0 THEN Panicked
                 ELSE binary_search(cum_freqs, cumulative_frequency, left, middle - 1)
            ELSE IF cumulative_frequency >= cum_freqs[middle + 2]
            THEN binary_search(cum_freqs, cumulative_frequency, middle + 1, right)
            ELSE Found(middle)

\* get_index.  cum_freqs.len() - 2 with len() = 1 (a table without entries)
\* panics in both builds, for the same reason as middle - 1 above.
StaticFrequencyTable_get_index(cum_freqs, cumulative_frequency) ==
    IF Len(cum_freqs) < 2 THEN Panicked
    ELSE binary_search(cum_freqs, cumulative_frequency, 0, Len(cum_freqs) - 2)

----------------------------------------------------------------------------
(* FenwickTree and MutableFrequencyTable: frequencies/mutable_table *)

\* usize::BITS (64 in the source, as wide as CalculationsType; scaled)
USIZE_BITS == CALCULATIONS_TYPE_BITS

\* lsb: n & -n, the lowest set bit of n
RECURSIVE lsb(_)
lsb(n) == IF n = 0 THEN 0 ELSE IF n % 2 = 1 THEN 1 ELSE 2 * lsb(n \div 2)

\* FenwickTree::len: data.len() - 1.  data[i] of the source is data[i + 1] here.
FenwickTree_len(data) == Len(data) - 1

\* the loop of FenwickTree::get_sum
RECURSIVE get_sum_loop(_, _, _)
get_sum_loop(data, index, sum) ==
    IF 0 < index /\ index < Len(data)
    THEN get_sum_loop(data, index - lsb(index), sum + data[index + 1])
    ELSE sum

get_sum(data, index) == get_sum_loop(data, index, 0)

\* the loop of FenwickTree::add, index already shifted by one
RECURSIVE add_loop(_, _, _)
add_loop(data, index, amount) ==
    IF index < Len(data)
    THEN add_loop([data EXCEPT ![index + 1] = @ + amount], index + lsb(index), amount)
    ELSE data

\* an add that raises only the entry of the index itself
add_leaf_only(data, index, amount) ==
    IF index + 1 < Len(data) THEN [data EXCEPT ![index + 2] = @ + amount] ELSE data

FenwickTree_add(data, index, amount) == add_loop(data, index + 1, amount)

\* the loop of FenwickTree::from: for i in 1..data.len()
RECURSIVE from_loop(_, _, _)
from_loop(values, data, i) ==
    IF ~(i < Len(data)) THEN data
    ELSE LET copied == [data EXCEPT ![i + 1] = @ + values[i]]
             parent_idx == i + lsb(i)
         IN from_loop(values,
                      IF parent_idx < Len(data)
                      THEN [copied EXCEPT ![parent_idx + 1] = @ + copied[i + 1]]
                      ELSE copied,
                      i + 1)

FenwickTree_from(values) == from_loop(values, [k \in 1 .. Len(values) + 1 |-> 0], 1)

\* MutableFrequencyTable::new: Err when the total is no Frequency
MutableFrequencyTable_new(frequencies) ==
    LET made(fenwick) ==
            IF ConstrainedNum_new_ok(FREQUENCY_BITS, get_sum(fenwick, FenwickTree_len(fenwick)))
            THEN [status |-> "ok", fenwick |-> fenwick,
                  total |-> get_sum(fenwick, FenwickTree_len(fenwick))]
            ELSE [status |-> "err", fenwick |-> fenwick, total |-> 0]
    IN made(FenwickTree_from(frequencies))

\* add_frequency on a table t = [fenwick, total]
add_frequency(t, index, amount) ==
    IF ConstrainedNum_new_ok(FREQUENCY_BITS, t.total + amount)
    THEN [t EXCEPT !.total = t.total + amount,
                   !.fenwick = FenwickTree_add(t.fenwick, index, amount)]
    ELSE t

\* usize subtraction a - b: panics with overflow checks, wraps without
usize_sub(a, b, checks) ==
    IF a >= b THEN [status |-> "ok", value |-> a - b]
    ELSE IF checks THEN [status |-> "panic", value |-> 0]
    ELSE [status |-> "ok", value |-> a - b + 2^USIZE_BITS]

\* usize addition a + b: panics with overflow checks, wraps without
usize_add(a, b, checks) ==
    IF a + b < 2^USIZE_BITS THEN [status |-> "ok", value |-> a + b]
    ELSE IF checks THEN [status |-> "panic", value |-> 0]
    ELSE [status |-> "ok", value |-> a + b - 2^USIZE_BITS]

\* MutableFrequencyTable::get_cfi: Option<Cfi> as a sequence of zero or one
\* element, or a panic
MutableFrequencyTable_get_cfi(t, index, checks) ==
    LET bounded(last_index) ==
            IF last_index.status = "panic" THEN [status |-> "panic", cfi |-> <<>>]
            ELSE IF index < last_index.value
            THEN [status |-> "ok",
                  cfi |-> <<Cfi(get_sum(t.fenwick, index), get_sum(t.fenwick, index + 1),
                                t.total)>>]
            ELSE [status |-> "ok", cfi |-> <<>>]
    IN bounded(usize_sub(FenwickTree_len(t.fenwick), 1, checks))

\* the loop of MutableFrequencyTable::get_index.  seen holds the (left, right)
\* pairs of the earlier iterations: the loop has no other state, so coming
\* back to one of them means it never ends.
RECURSIVE fenwick_search(_, _, _, _, _, _)
fenwick_search(data, cumulative_frequency, left, right, checks, seen) ==
    LET lower(middle, r) ==
            IF r.status = "panic" THEN Panicked
            ELSE fenwick_search(data, cumulative_frequency, left, r.value, checks,
                                seen \cup {<<left, right>>})
        upper(middle, l) ==
            IF l.status = "panic" THEN Panicked
            ELSE fenwick_search(data, cumulative_frequency, l.value, right, checks,
                                seen \cup {<<left, right>>})
        compare(middle) ==
            IF cumulative_frequency < get_sum(data, middle)
            THEN lower(middle, usize_sub(middle, 1, checks))
            ELSE IF cumulative_frequency >= get_sum(data, middle + 1)
            THEN upper(middle, usize_add(middle, 1, checks))
            ELSE Found(middle)
        halved(sum) ==
            IF sum.status = "panic" THEN Panicked ELSE compare(sum.value \div 2)
    IN IF ~(left <= right) THEN NotFound
       ELSE IF <<left, right>> \in seen THEN Diverges
       ELSE halved(usize_add(left, right, checks))

MutableFrequencyTable_get_index(t, cumulative_frequency, checks) ==
    LET search(right) ==
            IF right.status = "panic" THEN Panicked
            ELSE fenwick_search(t.fenwick, cumulative_frequency, 0, right.value, checks, {})
    IN search(usize_sub(FenwickTree_len(t.fenwick), 1, checks))

MutableFrequencyTable_get_total(t) == t.total

----------------------------------------------------------------------------
(* The reference models: models/distributions/uniform.rs, custom.rs *)

UniformDistributionModel_new == [kind |-> "uniform", cum_freqs |-> <<>>]

\* the constructors of the UniformDistributionModel of distributions/mod.rs,
\* which holds num_symbols and an optional escape index: new_with_escape, and
\* new when escape_idx is <<>>; num_symbols is a NonZero
new_with_escape(num_symbols, escape_idx) ==
    IF escape_idx # <<>> /\ escape_idx[1] >= num_symbols
    THEN [status |-> "EscapeIndexTooLarge", model |-> UniformDistributionModel_new]
    ELSE IF ~ConstrainedNum_new_ok(FREQUENCY_BITS, num_symbols)
    THEN [status |-> "TooManySymbolsError", model |-> UniformDistributionModel_new]
    ELSE [status |-> "ok",
          model |-> [kind |-> "uniform_with_escape_idx", num_symbols |-> num_symbols,
                     escape_idx |-> escape_idx]]

\* a new that builds the table of whatever number of frequencies it is given
new_of_any_length(frequencies) ==
    LET static == StaticFrequencyTable_new(frequencies)
    IN [status |-> static.status,
        model |-> [kind |-> "custom", cum_freqs |-> static.cum_freqs]]

\* CustomDistributionModel::new(DefaultSIM, frequencies): Ok(model) or Err
CustomDistributionModel_new(frequencies) ==
    LET static == StaticFrequencyTable_new(frequencies)
    IN IF supported_symbols_count # Len(frequencies)
       THEN [status |-> "err", model |-> [kind |-> "custom", cum_freqs |-> <<>>]]
       ELSE [status |-> static.status,
             model |-> [kind |-> "custom", cum_freqs |-> static.cum_freqs]]

Model_get_total(m) ==
    IF m.kind = "uniform" THEN supported_symbols_count
    ELSE IF m.kind = "uniform_with_escape_idx" THEN m.num_symbols
    ELSE StaticFrequencyTable_get_total(m.cum_freqs)

\* a get_cfi that tags every CFI as an IndexCfi
get_cfi_never_escape(m, index) ==
    IF index >= Model_get_total(m)
    THEN [status |-> "UnsupportedIndex", cfi |-> Cfi(0, 0, 0)]
    ELSE [status |-> "IndexCfi", cfi |-> Cfi(index, index + 1, Model_get_total(m))]

\* UniformDistributionModel::get_cfi(index) of uniform.rs (over DefaultSIM)
\* and of distributions/mod.rs (over num_symbols and escape_idx)
UniformDistributionModel_get_cfi(m, index) ==
    LET none == Cfi(0, 0, 0)
        cfi == Cfi(index, index + 1, Model_get_total(m))
    IN IF m.kind = "uniform"
       THEN IF index >= supported_symbols_count
            THEN [status |-> "UnsupportedIndex", cfi |-> none]
            ELSE IF \/ ~ConstrainedNum_new_ok(FREQUENCY_BITS, index + 1)
                    \/ ~ConstrainedNum_new_ok(FREQUENCY_BITS, supported_symbols_count)
            THEN [status |-> "panic", cfi |-> none]
            ELSE IF cfi.start = cfi.end THEN [status |-> "EmptyCfi", cfi |-> none]
            ELSE [status |-> IF DefaultSIM_get_symbol(index) = <<Esc>>
                             THEN "EscapeCfi" ELSE "IndexCfi",
                  cfi |-> cfi]
       ELSE IF index >= m.num_symbols
            THEN [status |-> "UnsupportedIndex", cfi |-> none]
            ELSE IF ~ConstrainedNum_new_ok(FREQUENCY_BITS, index + 1)
            THEN [status |-> "err", cfi |-> none]
            ELSE [status |-> IF m.escape_idx = <<index>> THEN "EscapeCfi" ELSE "IndexCfi",
                  cfi |-> cfi]

\* Model::get_cfi: status is IndexCfi, EscapeCfi, UnsupportedSymbol or EmptyCfi
Model_get_cfi(m, symbol) ==
    LET index == DefaultSIM_get_index(symbol)
        none == Cfi(0, 0, 0)
    IN IF index = <<>> THEN [status |-> "UnsupportedSymbol", cfi |-> none]
       ELSE IF m.kind = "uniform"
       THEN LET r == UniformDistributionModel_get_cfi(m, index[1])
            IN IF r.status = "UnsupportedIndex"
               THEN [status |-> "UnsupportedSymbol", cfi |-> none]
               ELSE r
       ELSE LET cfi == StaticFrequencyTable_get_cfi(m.cum_freqs, index[1])
            IN IF cfi = <<>> THEN [status |-> "EmptyCfi", cfi |-> none]
               ELSE [status |-> IF is_escape(symbol) THEN "EscapeCfi" ELSE "IndexCfi",
                     cfi |-> cfi[1]]

\* Model::get_symbol: Option<Symbol> as a sequence of zero or one element
\* (the model of distributions/mod.rs returns the index itself)
Model_get_symbol(m, cumulative_frequency) ==
    IF m.kind = "uniform"
    THEN IF cumulative_frequency >= supported_symbols_count THEN <<>>
         ELSE DefaultSIM_get_symbol(cumulative_frequency)
    ELSE IF m.kind = "uniform_with_escape_idx"
    THEN IF cumulative_frequency >= m.num_symbols THEN <<>>
         ELSE <<cumulative_frequency>>
    ELSE LET found(index) == IF index.kind = "Some" THEN DefaultSIM_get_symbol(index.index)
                                 ELSE <<>>
         IN found(StaticFrequencyTable_get_index(m.cum_freqs, cumulative_frequency))

----------------------------------------------------------------------------
(* Compressor: compressor.rs *)

\* emitted is a history of the bits handed to the output buffer, in call order
Compressor_new ==
    [outstanding_bits |-> 0, output |-> BitBuffer_new, interval |-> full_interval,
     emitted |-> <<>>]

\* an output step that leaves out the determining bit
output_only_outstanding(c, bit) ==
    [c EXCEPT !.output = append_repeated(@, ~bit, c.outstanding_bits),
              !.outstanding_bits = 0,
              !.emitted = @ \o [k \in 1 .. c.outstanding_bits |-> ~bit]]

output_with_outstanding(c, bit) ==
    [c EXCEPT !.output = append_repeated(append(@, bit), ~bit, c.outstanding_bits),
              !.outstanding_bits = 0,
              !.emitted = (@ \o <<bit>>) \o [k \in 1 .. c.outstanding_bits |-> ~bit]]

\* one iteration of the loop of process_interval_state, taken when the
\* state is Converging or NearConvergence
Compressor_process_step(c) ==
    LET \* the match on the state: the compressor it leaves and its (low, high)
        arm(st) ==
            IF st.state = "Converging"
            THEN [c |-> output_with_outstanding(c, st.bit),
                  low |-> shl(INTERVAL_BITS, c.interval.low, 1),
                  high |-> bitor(INTERVAL_BITS, shl(INTERVAL_BITS, c.interval.high, 1), 1)]
            ELSE [c |-> [c EXCEPT !.outstanding_bits = @ + 1],
                  low |-> bitxor(INTERVAL_BITS, shl(INTERVAL_BITS, c.interval.low, 1),
                                 system.half),
                  high |-> bitor(INTERVAL_BITS, shl(INTERVAL_BITS, c.interval.high, 1),
                                 system.half + 1)]
        \* self.interval.set_boundaries(low, high)?
        set(a, r) == [status |-> r.status, c |-> [a.c EXCEPT !.interval = r.itv]]
        step(a) == set(a, set_boundaries(a.c.interval, a.low, a.high))
    IN step(arm(get_state(c.interval)))

RECURSIVE Compressor_process_interval_state(_)
Compressor_process_interval_state(c) ==
    LET next(r) == IF r.status = "err" THEN r
                   ELSE Compressor_process_interval_state(r.c)
    IN IF get_state(c.interval).state = "NoConvergence" THEN [status |-> "ok", c |-> c]
       ELSE next(Compressor_process_step(c))

\* a failure of get_cfi that restarts the interval
get_cfi_failed_restarting(c, status) ==
    [status |-> status, c |-> [c EXCEPT !.interval = full_interval], bytes |-> <<>>]

\* self.model.get_cfi(symbol)? fails: load_symbol returns the model's error
\* before it touches the compressor
get_cfi_failed(c, status) == [status |-> status, c |-> c, bytes |-> <<>>]

\* load_symbol.  status: ok, err (set_boundaries failed), UnsupportedSymbol, EmptyCfi,
\* panic, or diverged: the recursion on an escape CFI comes back to an interval
\* in seen, the intervals the earlier calls of the recursion started from; a
\* model without state answers the same from there on, so the recursion never ends
RECURSIVE load_symbol(_, _, _, _, _)
load_symbol(c, m, symbol, checks, seen) ==
    LET \* after self.process_interval_state()?, p its result
        processed(g, u, p) ==
            IF u.status = "panic" THEN [status |-> "panic", c |-> c, bytes |-> <<>>]
            ELSE IF p.status = "err" THEN [status |-> "err", c |-> p.c, bytes |-> <<>>]
            ELSE IF g.status = "IndexCfi"
            THEN [status |-> "ok",
                  c |-> [p.c EXCEPT !.output = get_complete_bytes(@).buf],
                  bytes |-> get_complete_bytes(p.c.output).bytes]
            ELSE IF p.c.interval \in seen \cup {c.interval}
            THEN [status |-> "diverged", c |-> p.c, bytes |-> <<>>]
            ELSE load_symbol(p.c, m, symbol, checks, seen \cup {c.interval})
        \* after self.interval.update(cfi), u its result: the result is dropped
        updated(g, u) ==
            processed(g, u,
                      Compressor_process_interval_state([c EXCEPT !.interval = u.itv]))
        \* after self.model.get_cfi(symbol)?, g its result
        looked_up(g) ==
            IF g.status \in {"UnsupportedSymbol", "EmptyCfi"}
            THEN get_cfi_failed(c, g.status)
            ELSE updated(g, update(c.interval, g.cfi, checks))
    IN looked_up(Model_get_cfi(m, symbol))

finalize(c) ==
    LET c1 == [c EXCEPT !.outstanding_bits = @ + 1]
        bit == bitand(INTERVAL_BITS,
                      shr(INTERVAL_BITS, c1.interval.low, INTERVAL_BITS - 2), 1) = 1
        c2 == output_with_outstanding(c1, bit)
        d == get_complete_bytes(c2.output)
    IN [c |-> [c2 EXCEPT !.output = d.buf],
        bytes |-> d.bytes \o get_leftover_bits(d.buf)]

----------------------------------------------------------------------------
(* BitIterator over a byte sequence: bit_buffer/bit_iter.rs *)

\* the bits next() yields for one complete byte, most significant first
ByteBits(byte) == [k \in 1 .. 8 |-> (byte \div 2^(8 - k)) % 2 = 1]

\* every bit a BitIterator built from a byte sequence yields, in order
RECURSIVE BitIterator_from_bytes(_)
BitIterator_from_bytes(bytes) ==
    IF bytes = <<>> THEN <<>>
    ELSE ByteBits(Head(bytes)) \o BitIterator_from_bytes(Tail(bytes))

\* ---- BitIterator as the state machine of bit_iter.rs; an Option is a
\* sequence of zero or one element, incomplete_byte one pair <<byte, num_bits>>
BitIterator_from_buffer(buffer) ==
    LET full_bytes == get_complete_bytes(buffer).bytes
    IN [full_bytes_iter |-> IF full_bytes = <<>> THEN <<>> ELSE Tail(full_bytes),
        current_idx |-> 0,
        current_byte |-> IF full_bytes = <<>> THEN <<>> ELSE <<Head(full_bytes)>>,
        incomplete_byte |-> IF buffer.current_idx > 0
                            THEN <<<<buffer.current_byte, buffer.current_idx>>>>
                            ELSE <<>>]

BitIterator_from(value) ==
    [full_bytes_iter |-> IF value = <<>> THEN <<>> ELSE Tail(value),
     current_idx |-> 0,
     current_byte |-> IF value = <<>> THEN <<>> ELSE <<Head(value)>>,
     incomplete_byte |-> <<>>]

\* a next that reads the incomplete byte to its eighth bit
next_ignoring_num_bits(it) ==
    LET bit(byte) == ((byte \div 2^(7 - it.current_idx)) % 2) = 1
    IN IF it.current_byte # <<>>
       THEN [item |-> <<bit(it.current_byte[1])>>,
             iter |-> IF it.current_idx + 1 < 8
                      THEN [it EXCEPT !.current_idx = @ + 1]
                      ELSE [it EXCEPT !.current_idx = 0,
                                      !.current_byte =
                                          IF it.full_bytes_iter = <<>> THEN <<>>
                                          ELSE <<Head(it.full_bytes_iter)>>,
                                      !.full_bytes_iter =
                                          IF @ = <<>> THEN <<>> ELSE Tail(@)]]
       ELSE IF it.incomplete_byte # <<>>
       THEN [item |-> <<bit(it.incomplete_byte[1][1])>>,
             iter |-> IF it.current_idx + 1 < 8
                      THEN [it EXCEPT !.current_idx = @ + 1]
                      ELSE [it EXCEPT !.current_idx = @ + 1, !.incomplete_byte = <<>>]]
       ELSE [item |-> <<>>, iter |-> it]

BitIterator_next(it) ==
    LET bit(byte) == ((byte \div 2^(7 - it.current_idx)) % 2) = 1
    IN IF it.current_byte # <<>>
       THEN [item |-> <<bit(it.current_byte[1])>>,
             iter |-> IF it.current_idx + 1 < 8
                      THEN [it EXCEPT !.current_idx = @ + 1]
                      ELSE [it EXCEPT !.current_idx = 0,
                                      !.current_byte =
                                          IF it.full_bytes_iter = <<>> THEN <<>>
                                          ELSE <<Head(it.full_bytes_iter)>>,
                                      !.full_bytes_iter =
                                          IF @ = <<>> THEN <<>> ELSE Tail(@)]]
       ELSE IF it.incomplete_byte # <<>>
       THEN [item |-> <<bit(it.incomplete_byte[1][1])>>,
             iter |-> IF it.current_idx + 1 < it.incomplete_byte[1][2]
                      THEN [it EXCEPT !.current_idx = @ + 1]
                      ELSE [it EXCEPT !.current_idx = @ + 1, !.incomplete_byte = <<>>]]
       ELSE [item |-> <<>>, iter |-> it]

\* the caller's loop over the iterator: the bits up to the first None
RECURSIVE collect(_, _)
collect(it, bits) ==
    LET n == BitIterator_next(it)
    IN IF n.item = <<>> THEN [bits |-> bits, iter |-> n.iter]
       ELSE collect(n.iter, bits \o n.item)

----------------------------------------------------------------------------
(* Decompressor: decompressor.rs *)

TIMEOUT_BITS == INTERVAL_BITS


\* a get_next_bit that hands out zero bits without counting them
get_next_bit_uncounted(d) ==
    IF d.bits_iter = <<>>
    THEN [d |-> [d EXCEPT !.requested = @ + 1], bit |-> 0]
    ELSE [d |-> [d EXCEPT !.bits_iter = Tail(@), !.requested = @ + 1],
          bit |-> IF Head(d.bits_iter) THEN 1 ELSE 0]

\* get_next_bit: the next bit of bits_iter, or zero and one more timeout bit.
\* requested is not a field of the source: it counts the calls of get_next_bit.
get_next_bit(d) ==
    IF d.bits_iter = <<>>
    THEN [d |-> [d EXCEPT !.timeout_bits = @ + 1, !.requested = @ + 1], bit |-> 0]
    ELSE [d |-> [d EXCEPT !.bits_iter = Tail(@), !.requested = @ + 1],
          bit |-> IF Head(d.bits_iter) THEN 1 ELSE 0]

RECURSIVE load_bits_to_value(_, _)
load_bits_to_value(d, bits_num) ==
    IF bits_num = 0 THEN d
    ELSE LET n == get_next_bit(d)
         IN load_bits_to_value(
                [n.d EXCEPT !.value = bitor(INTERVAL_BITS,
                                            shl(INTERVAL_BITS, d.value, 1), n.bit)],
                bits_num - 1)

Decompressor_new(compressed_bits) ==
    load_bits_to_value(
        [bits_iter |-> compressed_bits, interval |-> full_interval, value |-> 0,
         timeout_bits |-> 0, requested |-> 0],
        INTERVAL_BITS)

\* process_interval_state of the decompressor; set_boundaries(..).expect(..)
\* panics when the new boundaries break low < high
RECURSIVE Decompressor_process_interval_state(_)
Decompressor_process_interval_state(d) ==
    LET st == get_state(d.interval)
        half == system.half
    IN IF st.state = "NoConvergence" THEN [status |-> "ok", d |-> d]
       ELSE
         LET d1 == IF st.state = "Converging"
                   THEN load_bits_to_value(d, 1)
                   ELSE LET n == get_next_bit(d)
                        IN [n.d EXCEPT !.value =
                               bitor(INTERVAL_BITS,
                                     bitxor(INTERVAL_BITS,
                                            shl(INTERVAL_BITS, d.value, 1), half),
                                     n.bit)]
             low == IF st.state = "Converging"
                    THEN shl(INTERVAL_BITS, d.interval.low, 1)
                    ELSE bitxor(INTERVAL_BITS, shl(INTERVAL_BITS, d.interval.low, 1), half)
             high == IF st.state = "Converging"
                     THEN bitor(INTERVAL_BITS, shl(INTERVAL_BITS, d.interval.high, 1), 1)
                     ELSE bitor(INTERVAL_BITS, shl(INTERVAL_BITS, d.interval.high, 1),
                                half + 1)
             r == set_boundaries(d1.interval, low, high)
         IN IF r.status = "err" THEN [status |-> "panic", d |-> d1]
            ELSE Decompressor_process_interval_state([d1 EXCEPT !.interval = r.itv])

\* a cumulative frequency rounded up: the last value of the window gets the
\* model's total
calc_cum_freq_rounded_up(d, m, checks) ==
    LET W == 2^CALCULATIONS_TYPE_BITS
        diff == d.value - d.interval.low
        plus == (diff % W) + 1
        prod == Model_get_total(m) * (plus % W)
        width == d.interval.high + 1 - d.interval.low
    IN IF checks /\ (diff < 0 \/ plus >= W \/ prod >= W)
       THEN [status |-> "panic", cf |-> 0]
       ELSE [status |-> "ok", cf |-> ((prod % W) + width - 1) \div width]

\* calc_cum_freq in CalculationsType arithmetic: with overflow checks an
\* overflow or underflow panics, without them the operation wraps
calc_cum_freq(d, m, checks) ==
    LET W == 2^CALCULATIONS_TYPE_BITS
        diff == d.value - d.interval.low
        plus == (diff % W) + 1
        prod == Model_get_total(m) * (plus % W)
        minus == (prod % W) - 1
        width == d.interval.high + 1 - d.interval.low
    IN IF checks /\ (diff < 0 \/ plus >= W \/ prod >= W \/ minus < 0)
       THEN [status |-> "panic", cf |-> 0]
       ELSE [status |-> "ok", cf |-> (minus % W) \div width]

Some(b) == [kind |-> "Some", byte |-> b]
None == [kind |-> "None", byte |-> 0]
Err(e) == [kind |-> e, byte |-> 0]

\* a check that lets the call go on with TIMEOUT_BITS zero bits read
timed_out_one_late(d) == ~(d.timeout_bits <= TIMEOUT_BITS)

\* the check at the entry of get_next_byte: ensure!(timeout_bits < TIMEOUT_BITS)
\* fails
timed_out(d) == ~(d.timeout_bits < TIMEOUT_BITS)

\* get_next_byte.  kind of the result: Some, None, or the failure:
\* DecompressionTimeout, FrequencyTooLarge (Frequency::new), NoSymbol
\* (get_symbol returned None), UnsupportedSymbol, EmptyCfi, Panic, or
\* Diverged (the call recurses on Esc from a state it does not change)
RECURSIVE get_next_byte(_, _, _)
get_next_byte(d, m, checks) ==
    IF timed_out(d)
    THEN [d |-> d, result |-> Err("DecompressionTimeout")]
    ELSE
      LET \* after self.process_interval_state(), p its result
          processed(symbol, u, p) ==
              IF u.status = "panic" \/ p.status = "panic"
              THEN [d |-> p.d, result |-> Err("Panic")]
              ELSE IF symbol.tag = "Byte"
              THEN [d |-> p.d, result |-> Some(symbol.byte)]
              ELSE IF symbol.tag = "Eof"
              THEN [d |-> p.d, result |-> None]
              ELSE IF p.d = d
              THEN [d |-> p.d, result |-> Err("Diverged")]
              ELSE get_next_byte(p.d, m, checks)
          \* after self.interval.update(cfi), u its result: the result is dropped
          updated(symbol, u) ==
              processed(symbol, u,
                        Decompressor_process_interval_state([d EXCEPT !.interval = u.itv]))
          \* after self.model.get_cfi(symbol)?, g its result
          looked_up(symbol, g) ==
              IF g.status \in {"UnsupportedSymbol", "EmptyCfi"}
              THEN [d |-> d, result |-> Err(g.status)]
              ELSE updated(symbol, update(d.interval, g.cfi, checks))
          \* after self.model.get_symbol(cum_freq)
          found(symbol) ==
              IF symbol = <<>> THEN [d |-> d, result |-> Err("NoSymbol")]
              ELSE looked_up(symbol[1], Model_get_cfi(m, symbol[1]))
          \* after self.calc_cum_freq() and Frequency::new(..)?
          calculated(cf) ==
              IF cf.status = "panic" THEN [d |-> d, result |-> Err("Panic")]
              ELSE IF ~ConstrainedNum_new_ok(FREQUENCY_BITS, cf.cf)
              THEN [d |-> d, result |-> Err("FrequencyTooLarge")]
              ELSE found(Model_get_symbol(m, cf.cf))
      IN calculated(calc_cum_freq(d, m, checks))

----------------------------------------------------------------------------
(* The codec session: a compressor fed symbols, finalized, and a           *)
(* decompressor reading the bytes the compressor handed out.  last records *)
(* the call made, the object it was made on and what it returned.          *)

\* the frequency vectors of the custom models of a session: every symbol has
\* frequency 1 except one heavier symbol, with and without a zero frequency
\* for Esc
CustomFrequencies ==
    {[i \in 1 .. UNIQUE_SYMBOLS_AMOUNT |-> IF i = heavy THEN 2 ELSE 1] :
        heavy \in 1 .. UNIQUE_SYMBOLS_AMOUNT}
    \cup
    {[i \in 1 .. UNIQUE_SYMBOLS_AMOUNT |->
        IF i = UNIQUE_SYMBOLS_AMOUNT THEN 0 ELSE IF i = heavy THEN 3 ELSE 1] :
        heavy \in 1 .. (UNIQUE_SYMBOLS_AMOUNT - 1)}

Models ==
    {UniformDistributionModel_new}
    \cup {CustomDistributionModel_new(f).model : f \in CustomFrequencies}

NoDecompressor ==
    [bits_iter |-> <<>>, interval |-> full_interval, value |-> 0, timeout_bits |-> 0,
     requested |-> 0]

NoCall == [op |-> "none"]

\* no frequency table is driven
NoTable == [kind |-> "none"]

Init ==
    /\ table = NoTable
    /\ odd_calls = FALSE
    /\ model \in Models
    /\ overflow_checks \in BOOLEAN
    /\ phase = "encoding"
    /\ enc = Compressor_new
    /\ input = <<>>
    /\ stream = <<>>
    /\ dec = NoDecompressor
    /\ decoded = <<>>
    /\ buf = BitBuffer_new
    /\ itv = full_interval
    /\ last = NoCall

LoadSymbol(symbol) ==
    /\ phase = "encoding"
    /\ Len(input) < MaxSymbols
    /\ \E r \in {load_symbol(enc, model, symbol, overflow_checks, {})} :
          /\ enc' = r.c
          /\ input' = Append(input, [symbol |-> symbol, status |-> r.status])
          /\ stream' = stream \o r.bytes
          /\ phase' = IF r.status \in {"panic", "diverged"} THEN "aborted" ELSE phase
          /\ last' = [op |-> "load_symbol", symbol |-> symbol, before |-> enc,
                      status |-> r.status, bytes |-> r.bytes]
    /\ UNCHANGED <<model, overflow_checks, dec, decoded, buf, itv, table, odd_calls>>

Finalize ==
    /\ phase = "encoding"
    /\ \E r \in {finalize(enc)} :
          /\ enc' = r.c
          /\ stream' = stream \o r.bytes
          /\ last' = [op |-> "finalize", before |-> enc, bytes |-> r.bytes]
    /\ phase' = "finalized"
    /\ UNCHANGED <<model, overflow_checks, input, dec, decoded, buf, itv, table, odd_calls>>

NewDecompressor ==
    /\ phase = "finalized"
    /\ dec' = Decompressor_new(BitIterator_from_bytes(stream))
    /\ phase' = "decoding"
    /\ last' = [op |-> "Decompressor_new", bytes |-> stream]
    /\ UNCHANGED <<model, overflow_checks, enc, input, stream, decoded, buf, itv, table, odd_calls>>

GetNextByte ==
    /\ phase = "decoding"
    /\ Len(decoded) < MaxDecodeCalls
    /\ \E r \in {get_next_byte(dec, model, overflow_checks)} :
          /\ dec' = r.d
          /\ decoded' = Append(decoded, r.result)
          /\ phase' = IF r.result.kind \in {"Panic", "Diverged"} THEN "aborted" ELSE phase
          /\ last' = [op |-> "get_next_byte", before |-> dec, result |-> r.result]
    /\ UNCHANGED <<model, overflow_checks, enc, input, stream, buf, itv, table, odd_calls>>

Next ==
    \/ \E symbol \in Symbols : LoadSymbol(symbol)
    \/ Finalize
    \/ NewDecompressor
    \/ GetNextByte

Spec == Init /\ [][Next]_vars

----------------------------------------------------------------------------
(* A BitBuffer driven directly through its API.  last records the call     *)
(* made, its arguments and the buffer it was made on.                      *)

IdleCodec ==
    /\ model = UniformDistributionModel_new
    /\ phase = "idle"
    /\ enc = Compressor_new
    /\ input = <<>>
    /\ stream = <<>>
    /\ dec = NoDecompressor
    /\ decoded = <<>>

InitBitBuffer ==
    /\ table = NoTable
    /\ odd_calls = FALSE
    /\ IdleCodec
    /\ overflow_checks = FALSE
    /\ buf = BitBuffer_new
    /\ itv = full_interval
    /\ last = NoCall

\* the byte sequences a BitIterator is built from
IterBytes == UNION {[1 .. n -> {0, 1, 128, 165, 255}] : n \in 0 .. MaxIterBytes}

BufAppend(bit) ==
    /\ len(buf) <= MaxBufBits
    /\ buf' = append(buf, bit)
    /\ last' = [op |-> "append", bit |-> bit, repetitions |-> 1, before |-> buf]
    /\ UNCHANGED <<codecVars, itv, table, odd_calls>>

BufAppendRepeated(bit, repetitions) ==
    /\ len(buf) <= MaxBufBits
    /\ buf' = append_repeated(buf, bit, repetitions)
    /\ last' = [op |-> "append_repeated", bit |-> bit, repetitions |-> repetitions,
                before |-> buf]
    /\ UNCHANGED <<codecVars, itv, table, odd_calls>>

BufGetCompleteBytes ==
    /\ \E r \in {get_complete_bytes(buf)} :
          /\ buf' = r.buf
          /\ last' = [op |-> "get_complete_bytes", bit |-> FALSE, repetitions |-> 0,
                      before |-> buf, result |-> r.bytes]
    /\ UNCHANGED <<codecVars, itv, table, odd_calls>>

\* get_leftover_bits takes &self: the buffer stays as it is; the record
\* keeps the call before it
BufGetLeftoverBits ==
    /\ last.op # "get_leftover_bits"
    /\ last' = [op |-> "get_leftover_bits", bit |-> FALSE, repetitions |-> 0,
                before |-> buf, result |-> get_leftover_bits(buf), prior |-> last]
    /\ UNCHANGED <<codecVars, buf, itv, table, odd_calls>>

\* BitIterator::from(buffer) takes the buffer by value; the iterator is read
\* to its end and once more, and the caller goes on with a new buffer
BufIntoBitIterator ==
    /\ \E r \in {collect(BitIterator_from_buffer(buf), <<>>)} :
          last' = [op |-> "BitIterator_from_buffer", bit |-> FALSE, repetitions |-> 0,
                   before |-> buf, result |-> r.bits,
                   after_end |-> BitIterator_next(r.iter).item]
    /\ buf' = BitBuffer_new
    /\ UNCHANGED <<codecVars, itv, table, odd_calls>>

\* BitIterator::from(bytes), read to its end and once more; the bytes are
\* the caller's own, so one such call before the buffer is used shows them all
IterFromBytes(bytes) ==
    /\ last = NoCall
    /\ \E r \in {collect(BitIterator_from(bytes), <<>>)} :
          last' = [op |-> "BitIterator_from", bit |-> FALSE, repetitions |-> 0,
                   before |-> buf, bytes |-> bytes, result |-> r.bits,
                   after_end |-> BitIterator_next(r.iter).item]
    /\ UNCHANGED <<codecVars, buf, itv, table, odd_calls>>

NextBitBuffer ==
    \/ \E bit \in BOOLEAN : BufAppend(bit)
    \/ \E bit \in BOOLEAN, repetitions \in 0 .. MaxRepetitions :
          BufAppendRepeated(bit, repetitions)
    \/ BufGetCompleteBytes
    \/ BufGetLeftoverBits
    \/ BufIntoBitIterator
    \/ \E bytes \in IterBytes : IterFromBytes(bytes)

SpecBitBuffer == InitBitBuffer /\ [][NextBitBuffer]_vars

----------------------------------------------------------------------------
(* An Interval driven directly through its API.  last records the call     *)
(* made and whether it succeeded.                                          *)

\* the frequencies of the CFIs given to update
CfiFrequencies == {f \in Frequency : f <= MaxCfiTotal}

\* the CFIs given to update: every CFI with start < end <= total, and the
\* malformed ones with an empty range, a zero total or an end above the total
CfiInputs ==
    {c \in [start : CfiFrequencies, end : CfiFrequencies, total : CfiFrequencies] :
        \/ c.start < c.end /\ c.end <= c.total
        \/ c.start = c.end /\ c.end <= c.total /\ c.total <= 1
        \/ c.start = 0 /\ c.end = c.total + 1}

\* the boundaries given to set_boundaries: the extremes and the values
\* around the constants of the bits system
BoundaryInputs ==
    {0, 1, system.one_fourth, system.one_fourth + 1, system.half, system.half + 1,
     system.max - 1, system.max}

InitInterval ==
    /\ table = NoTable
    /\ odd_calls = FALSE
    /\ IdleCodec
    /\ overflow_checks \in BOOLEAN
    /\ buf = BitBuffer_new
    /\ itv = full_interval
    /\ last = NoCall

IntervalUpdate(cfi) ==
    /\ LET r == update(itv, cfi, overflow_checks)
       IN /\ itv' = r.itv
          /\ last' = [op |-> "update", ok |-> r.status = "ok"]
    /\ UNCHANGED <<codecVars, buf, table, odd_calls>>

IntervalSetBoundaries(new_low, new_high) ==
    /\ LET r == set_boundaries(itv, new_low, new_high)
       IN /\ itv' = r.itv
          /\ last' = [op |-> "set_boundaries", ok |-> r.status = "ok"]
    /\ UNCHANGED <<codecVars, buf, table, odd_calls>>

IntervalSetLow(new_low) ==
    /\ LET r == set_low(itv, new_low)
       IN /\ itv' = r.itv
          /\ last' = [op |-> "set_low", ok |-> r.status = "ok"]
    /\ UNCHANGED <<codecVars, buf, table, odd_calls>>

IntervalSetHigh(new_high) ==
    /\ LET r == set_high(itv, new_high)
       IN /\ itv' = r.itv
          /\ last' = [op |-> "set_high", ok |-> r.status = "ok"]
    /\ UNCHANGED <<codecVars, buf, table, odd_calls>>

NextInterval ==
    \/ \E cfi \in CfiInputs : IntervalUpdate(cfi)
    \/ \E new_low \in BoundaryInputs, new_high \in BoundaryInputs :
          IntervalSetBoundaries(new_low, new_high)
    \/ \E new_low \in IntervalBoundary : IntervalSetLow(new_low)
    \/ \E new_high \in IntervalBoundary : IntervalSetHigh(new_high)

SpecInterval == InitInterval /\ [][NextInterval]_vars

----------------------------------------------------------------------------
(* One mutator of Interval (update, set_boundaries, set_low, set_high), or  *)
(* the loop of process_interval_state, applied once to an interval the API *)
(* can produce.  last records the arguments given and the interval the     *)
(* call was made on.                                                       *)

InitUpdate ==
    /\ table = NoTable
    /\ odd_calls = FALSE
    /\ IdleCodec
    /\ overflow_checks \in BOOLEAN
    /\ buf = BitBuffer_new
    /\ itv \in {i \in [low : IntervalBoundary, high : IntervalBoundary] :
                   validate_boundaries_invariant(i.low, i.high)}
    /\ last = NoCall

UpdateOnce(cfi) ==
    /\ last = NoCall
    /\ LET r == update(itv, cfi, overflow_checks)
       IN /\ itv' = r.itv
          /\ last' = [op |-> "update", status |-> r.status, cfi |-> cfi, before |-> itv]
    /\ UNCHANGED <<codecVars, buf, table, odd_calls>>

SetBoundariesOnce(new_low, new_high) ==
    /\ last = NoCall
    /\ LET r == set_boundaries(itv, new_low, new_high)
       IN /\ itv' = r.itv
          /\ last' = [op |-> "set_boundaries", status |-> r.status, new_low |-> new_low,
                      new_high |-> new_high, before |-> itv]
    /\ UNCHANGED <<codecVars, buf, table, odd_calls>>

SetLowOnce(new_low) ==
    /\ last = NoCall
    /\ LET r == set_low(itv, new_low)
       IN /\ itv' = r.itv
          /\ last' = [op |-> "set_low", status |-> r.status, new_low |-> new_low,
                      before |-> itv]
    /\ UNCHANGED <<codecVars, buf, table, odd_calls>>

SetHighOnce(new_high) ==
    /\ last = NoCall
    /\ LET r == set_high(itv, new_high)
       IN /\ itv' = r.itv
          /\ last' = [op |-> "set_high", status |-> r.status, new_high |-> new_high,
                      before |-> itv]
    /\ UNCHANGED <<codecVars, buf, table, odd_calls>>

\* process_interval_state of a compressor and of a decompressor that hold
\* the interval, the decompressor with the bits of value as its source
ProcessIntervalStateOnce(value) ==
    /\ last = NoCall
    /\ value \in {itv.low, itv.high}
    /\ \E c \in {Compressor_process_interval_state(
                     [Compressor_new EXCEPT !.interval = itv])},
          d \in {Decompressor_process_interval_state(
                     [bits_iter |-> <<>>, interval |-> itv, value |-> value,
                      timeout_bits |-> 0, requested |-> 0])} :
          /\ itv' = c.c.interval
          /\ last' = [op |-> "process_interval_state", before |-> itv,
                      status |-> c.status, compressor |-> c.c,
                      decoder_status |-> d.status, decompressor |-> d.d]
    /\ UNCHANGED <<codecVars, buf, table, odd_calls>>

NextUpdate ==
    \/ \E cfi \in CfiInputs : UpdateOnce(cfi)
    \/ \E value \in IntervalBoundary : ProcessIntervalStateOnce(value)
    \/ \E new_low \in BoundaryInputs, new_high \in BoundaryInputs :
          SetBoundariesOnce(new_low, new_high)
    \/ \E new_low \in IntervalBoundary : SetLowOnce(new_low)
    \/ \E new_high \in IntervalBoundary : SetHighOnce(new_high)

SpecUpdate == InitUpdate /\ [][NextUpdate]_vars

----------------------------------------------------------------------------
(* A Decompressor over an arbitrary finite bit source, asked for bytes     *)
(* until a call returns something else than a byte.                        *)

\* the bit sources given to Decompressor::new: every sequence of at most
\* MaxSourceBits bits
BitSources == UNION {[1 .. n -> BOOLEAN] : n \in 0 .. MaxSourceBits}

InitDecoder ==
    /\ table = NoTable
    /\ odd_calls = FALSE
    /\ model \in Models
    /\ overflow_checks \in BOOLEAN
    /\ phase = "decoding"
    /\ enc = Compressor_new
    /\ input = <<>>
    /\ stream = <<>>
    /\ decoded = <<>>
    /\ buf = BitBuffer_new
    /\ itv = full_interval
    /\ \E compressed_bits \in BitSources :
          /\ dec = Decompressor_new(compressed_bits)
          /\ last = [op |-> "Decompressor_new", bits |-> compressed_bits]

\* the caller's loop: the last call, if any, returned Ok(Some(byte))
CallerGoesOn == last.op = "get_next_byte" => last.result.kind = "Some"

DecodeNext ==
    /\ CallerGoesOn
    /\ \E r \in {get_next_byte(dec, model, overflow_checks)} :
          /\ dec' = r.d
          /\ last' = [op |-> "get_next_byte", before |-> dec, result |-> r.result,
                      bits |-> last.bits]
    /\ odd_calls' = ~odd_calls
    /\ UNCHANGED <<model, overflow_checks, phase, enc, input, stream, decoded, buf, itv, table>>

NextDecoder == DecodeNext

\* The caller goes round its loop once more.  get_next_byte is total, so
\* DecodeNext is enabled exactly when CallerGoesOn holds, and every DecodeNext
\* step flips odd_calls: within NextDecoder the CallAgain steps are the
\* DecodeNext steps, and WF_odd_calls(CallAgain) is WF_vars(DecodeNext).
CallAgain == CallerGoesOn /\ odd_calls' = ~odd_calls

\* the caller calls get_next_byte again for as long as bytes come back
SpecDecoder == InitDecoder /\ [][NextDecoder]_vars /\ WF_odd_calls(CallAgain)

----------------------------------------------------------------------------
(* A StaticFrequencyTable, a MutableFrequencyTable or a bare FenwickTree   *)
(* driven directly through its API.  last records the call made, its       *)
(* arguments, the table it was made on and what it returned.  values is    *)
(* not a field of the source: it holds the values a FenwickTree was built  *)
(* from, raised by every add made since; adds counts the calls that        *)
(* change a table.                                                         *)

\* the frequency vectors the tables are built from: at most MaxEntries
\* entries, zero included
TableFrequencies ==
    UNION {[1 .. n -> 0 .. MaxTableFrequency] : n \in 0 .. MaxEntries}

\* the amounts given to add_frequency and add: one, and the largest Frequency
TableAmounts == {1, ConstrainedNum_max(FREQUENCY_BITS)}

\* the indices given to get_cfi, add_frequency and add: in and out of range
TableIndices == 0 .. MaxEntries + 1

StaticTables ==
    {[kind |-> "static", cum_freqs |-> StaticFrequencyTable_new(f).cum_freqs] :
        f \in {g \in TableFrequencies : StaticFrequencyTable_new(g).status = "ok"}}

MutableTables ==
    {[kind |-> "mutable", fenwick |-> MutableFrequencyTable_new(f).fenwick,
      total |-> MutableFrequencyTable_new(f).total, adds |-> 0] :
        f \in {g \in TableFrequencies : MutableFrequencyTable_new(g).status = "ok"}}

FenwickTrees ==
    {[kind |-> "fenwick", data |-> FenwickTree_from(f), values |-> f, adds |-> 0] :
        f \in TableFrequencies}

\* the frequency vectors given to StaticFrequencyTable::new by the action of
\* that name: zero, one and the largest Frequency at every place
NewFrequencies ==
    UNION {[1 .. n -> {0, 1, ConstrainedNum_max(FREQUENCY_BITS)}] : n \in 0 .. MaxEntries}

InitTables ==
    /\ IdleCodec
    /\ overflow_checks \in BOOLEAN
    /\ buf = BitBuffer_new
    /\ itv = full_interval
    /\ odd_calls = FALSE
    /\ table \in {NoTable} \cup StaticTables \cup MutableTables \cup FenwickTrees
    /\ last = NoCall

\* StaticFrequencyTable::new(frequencies): Ok(table) or Err
StaticNew(frequencies) ==
    /\ table = NoTable
    /\ \E r \in {StaticFrequencyTable_new(frequencies)} :
          /\ table' = IF r.status = "ok"
                      THEN [kind |-> "static", cum_freqs |-> r.cum_freqs]
                      ELSE NoTable
          /\ last' = [op |-> "StaticFrequencyTable_new", frequencies |-> frequencies,
                      status |-> r.status]
    /\ UNCHANGED <<codecVars, buf, itv, odd_calls>>

TableGetCfi(index) ==
    /\ table.kind \in {"static", "mutable"}
    /\ \E r \in {IF table.kind = "static"
                  THEN [status |-> "ok",
                        cfi |-> StaticFrequencyTable_get_cfi(table.cum_freqs, index)]
                  ELSE MutableFrequencyTable_get_cfi(table, index, overflow_checks)} :
          last' = [op |-> "get_cfi", index |-> index, result |-> r]
    /\ UNCHANGED <<codecVars, buf, itv, table, odd_calls>>

TableGetIndex(cumulative_frequency) ==
    /\ table.kind \in {"static", "mutable"}
    /\ \E r \in {IF table.kind = "static"
                  THEN StaticFrequencyTable_get_index(table.cum_freqs, cumulative_frequency)
                  ELSE MutableFrequencyTable_get_index(table, cumulative_frequency,
                                                       overflow_checks)} :
          last' = [op |-> "get_index", cf |-> cumulative_frequency, result |-> r]
    /\ UNCHANGED <<codecVars, buf, itv, table, odd_calls>>

TableAddFrequency(index, amount) ==
    /\ table.kind = "mutable"
    /\ table.adds < MaxAdds
    /\ table' = [add_frequency(table, index, amount) EXCEPT !.adds = @ + 1]
    /\ last' = [op |-> "add_frequency", index |-> index, amount |-> amount,
                before |-> table]
    /\ UNCHANGED <<codecVars, buf, itv, odd_calls>>

TreeAdd(index, amount) ==
    /\ table.kind = "fenwick"
    /\ table.adds < MaxTreeAdds
    /\ table' = [table EXCEPT
                    !.data = FenwickTree_add(@, index, amount),
                    !.values = IF index < Len(@) THEN [@ EXCEPT ![index + 1] = @ + amount]
                               ELSE @,
                    !.adds = @ + 1]
    /\ last' = [op |-> "add", index |-> index, amount |-> amount, before |-> table]
    /\ UNCHANGED <<codecVars, buf, itv, odd_calls>>

NextTables ==
    \/ \E frequencies \in NewFrequencies : StaticNew(frequencies)
    \/ \E index \in TableIndices : TableGetCfi(index)
    \/ \E cumulative_frequency \in Frequency : TableGetIndex(cumulative_frequency)
    \/ \E index \in TableIndices, amount \in TableAmounts : TableAddFrequency(index, amount)
    \/ \E index \in TableIndices, amount \in TableAmounts : TreeAdd(index, amount)

SpecTables == InitTables /\ [][NextTables]_vars

----------------------------------------------------------------------------
(* ConstrainedNum on its own: new for every width and value, then one
   operator on the number made *)

\* the widths: none, one bit, those of Frequency and IntervalBoundary, the
\* whole CalculationsType and one more
NumWidths == {0, 1, FREQUENCY_BITS, INTERVAL_BITS, CALCULATIONS_TYPE_BITS,
              CALCULATIONS_TYPE_BITS + 1}

\* the right-hand operands: the small ones, those around the width of
\* CalculationsType, and its largest value
NumOperands == 0 .. CALCULATIONS_TYPE_BITS + 1 \cup {2^CALCULATIONS_TYPE_BITS - 1}

NumOperators == {"bitand", "bitor", "bitxor", "not", "shr", "shl"}

InitNumbers ==
    /\ IdleCodec
    /\ overflow_checks \in BOOLEAN
    /\ buf = BitBuffer_new
    /\ itv = full_interval
    /\ table = NoTable
    /\ odd_calls = FALSE
    /\ last = NoCall

\* ConstrainedNum::<BITS>::new(value)
NumNew(BITS, value) ==
    /\ last = NoCall
    /\ last' = [op |-> "new", BITS |-> BITS, value |-> value,
                status |-> IF ConstrainedNum_new_ok(BITS, value) THEN "ok" ELSE "err"]
    /\ UNCHANGED <<codecVars, buf, itv, table, odd_calls>>

\* one operator of bit_ops.rs on the number new returned
NumOperator(operator, rhs) ==
    /\ last.op = "new"
    /\ last.status = "ok"
    /\ operator = "not" => rhs = 0
    /\ LET BITS == last.BITS
           x == last.value
           ok(value) == [status |-> "ok", value |-> value]
           amount == shift_amount(rhs, overflow_checks)
       IN last' = [op |-> operator, BITS |-> BITS, value |-> x, rhs |-> rhs,
                   result |->
                       CASE operator = "bitand" -> ok(bitand(BITS, x, rhs))
                         [] operator = "bitor" -> ok(bitor(BITS, x, rhs))
                         [] operator = "bitxor" -> ok(bitxor(BITS, x, rhs))
                         [] operator = "not" -> ok(not(BITS, x))
                         [] operator = "shr" ->
                              IF amount.status = "ok" THEN ok(shr(BITS, x, amount.rhs))
                              ELSE [status |-> "panic", value |-> 0]
                         [] operator = "shl" ->
                              IF amount.status = "ok" THEN ok(shl(BITS, x, amount.rhs))
                              ELSE [status |-> "panic", value |-> 0]]
    /\ UNCHANGED <<codecVars, buf, itv, table, odd_calls>>

\* BitsSystem::<BITS>::new()
BitsSystemNew(BITS) ==
    /\ last = NoCall
    /\ last' = IF BITS < 2
               THEN [op |-> "BitsSystem_new", BITS |-> BITS,
                     status |-> "NotEnoughBitsForSystemError"]
               ELSE [op |-> "BitsSystem_new", BITS |-> BITS, status |-> "ok",
                     system |-> BitsSystem_new(BITS)]
    /\ UNCHANGED <<codecVars, buf, itv, table, odd_calls>>

NextNumbers ==
    \/ \E BITS \in NumWidths, value \in 0 .. 2^CALCULATIONS_TYPE_BITS - 1 :
          NumNew(BITS, value)
    \/ \E operator \in NumOperators, rhs \in NumOperands : NumOperator(operator, rhs)
    \/ \E BITS \in 0 .. CALCULATIONS_TYPE_BITS : BitsSystemNew(BITS)

SpecNumbers == InitNumbers /\ [][NextNumbers]_vars

----------------------------------------------------------------------------
(* The symbol-index mapping and the models on their own *)

\* the frequency vectors given to CustomDistributionModel::new: zero, one and
\* the largest Frequency at every place of a vector of the supported length,
\* and a vector of ones that is one shorter or one longer
ModelFrequencies ==
    [1 .. supported_symbols_count -> {0, 1, ConstrainedNum_max(FREQUENCY_BITS)}]
    \cup {[i \in 1 .. n |-> 1] :
            n \in {supported_symbols_count - 1, supported_symbols_count + 1}}

InitModels ==
    /\ model \in Models
    /\ phase = "idle"
    /\ enc = Compressor_new
    /\ input = <<>>
    /\ stream = <<>>
    /\ dec = NoDecompressor
    /\ decoded = <<>>
    /\ overflow_checks = FALSE
    /\ buf = BitBuffer_new
    /\ itv = full_interval
    /\ table = NoTable
    /\ odd_calls = FALSE
    /\ last = NoCall

SimGetIndex(symbol) ==
    /\ last' = [op |-> "DefaultSIM_get_index", symbol |-> symbol,
                result |-> DefaultSIM_get_index(symbol)]
    /\ UNCHANGED <<codecVars, buf, itv, table, odd_calls>>

SimGetSymbol(index) ==
    /\ last' = [op |-> "DefaultSIM_get_symbol", index |-> index,
                result |-> DefaultSIM_get_symbol(index)]
    /\ UNCHANGED <<codecVars, buf, itv, table, odd_calls>>

\* CustomDistributionModel::new(DefaultSIM, frequencies), the first call made;
\* the model it returns is the one used from then on
CustomNew(frequencies) ==
    /\ last = NoCall
    /\ \E r \in {CustomDistributionModel_new(frequencies)} :
          /\ model' = IF r.status = "ok" THEN r.model ELSE model
          /\ last' = [op |-> "CustomDistributionModel_new", frequencies |-> frequencies,
                      status |-> r.status]
    /\ UNCHANGED <<overflow_checks, phase, enc, input, stream, dec, decoded,
                   buf, itv, table, odd_calls>>

\* UniformDistributionModel::new_with_escape (new when escape_idx is <<>>) of
\* distributions/mod.rs, the first call made
UniformNewWithEscape(num_symbols, escape_idx) ==
    /\ last = NoCall
    /\ \E r \in {new_with_escape(num_symbols, escape_idx)} :
          /\ model' = IF r.status = "ok" THEN r.model ELSE model
          /\ last' = [op |-> "new_with_escape", num_symbols |-> num_symbols,
                      escape_idx |-> escape_idx, status |-> r.status]
    /\ UNCHANGED <<overflow_checks, phase, enc, input, stream, dec, decoded,
                   buf, itv, table, odd_calls>>

\* Model::get_cfi(symbol)
ModelGetCfi(symbol) ==
    /\ model.kind \in {"uniform", "custom"}
    /\ last' = [op |-> "get_cfi", symbol |-> symbol, result |-> Model_get_cfi(model, symbol)]
    /\ UNCHANGED <<codecVars, buf, itv, table, odd_calls>>

\* UniformDistributionModel::get_cfi(index)
UniformGetCfi(index) ==
    /\ model.kind \in {"uniform", "uniform_with_escape_idx"}
    /\ last' = [op |-> "get_cfi_of_index", index |-> index,
                result |-> UniformDistributionModel_get_cfi(model, index)]
    /\ UNCHANGED <<codecVars, buf, itv, table, odd_calls>>

ModelGetSymbol(cumulative_frequency) ==
    /\ last' = [op |-> "get_symbol", cumulative_frequency |-> cumulative_frequency,
                result |-> Model_get_symbol(model, cumulative_frequency)]
    /\ UNCHANGED <<codecVars, buf, itv, table, odd_calls>>

ModelGetTotal ==
    /\ last' = [op |-> "get_total", result |-> Model_get_total(model)]
    /\ UNCHANGED <<codecVars, buf, itv, table, odd_calls>>

NextModels ==
    \/ \E symbol \in Symbols : SimGetIndex(symbol)
    \/ \E index \in 0 .. supported_symbols_count + 1 : SimGetSymbol(index)
    \/ \E frequencies \in ModelFrequencies : CustomNew(frequencies)
    \/ \E num_symbols \in 1 .. ConstrainedNum_max(FREQUENCY_BITS) + 1,
          escape_idx \in {<<>>} \cup {<<i>> : i \in 0 .. ConstrainedNum_max(FREQUENCY_BITS) + 1} :
          UniformNewWithEscape(num_symbols, escape_idx)
    \/ \E symbol \in Symbols : ModelGetCfi(symbol)
    \/ \E index \in 0 .. ConstrainedNum_max(FREQUENCY_BITS) + 1 : UniformGetCfi(index)
    \/ \E cumulative_frequency \in Frequency : ModelGetSymbol(cumulative_frequency)
    \/ ModelGetTotal

SpecModels == InitModels /\ [][NextModels]_vars

----------------------------------------------------------------------------
(* Properties of the codec session *)

\* the symbol has an index CFI in the model: supported, non-zero frequency
Encodable(symbol) == Model_get_cfi(model, symbol).status = "IndexCfi"

\* the load_symbol calls made so far are byte symbols, optionally followed
\* by one final EOF
BytesThenEof ==
    \A k \in 1 .. Len(input) :
        /\ Encodable(input[k].symbol)
        /\ \/ input[k].symbol.tag = "Byte"
           \/ k = Len(input) /\ input[k].symbol = Eof

\* what get_next_byte is to return for the input: the bytes, then None
ExpectedDecoding ==
    [k \in 1 .. Len(input) |->
        IF input[k].symbol.tag = "Byte" THEN Some(input[k].symbol.byte) ELSE None]

\* C1: codec round trip.  When the bytes of S and then one EOF are loaded,
\* every load_symbol succeeds, and a decompressor over the same model that
\* reads the bytes handed out by load_symbol and finalize returns the bytes
\* of S in order and then None.
C1_RoundTrip ==
    BytesThenEof =>
        /\ \A k \in 1 .. Len(input) : input[k].status = "ok"
        /\ (Len(input) > 0 /\ input[Len(input)].symbol = Eof) =>
              \A j \in 1 .. Len(decoded) :
                  j <= Len(input) => decoded[j] = ExpectedDecoding[j]

\* the most significant bit of an interval boundary
TopBit(x) == x \div 2^(INTERVAL_BITS - 1)

\* the fractions of the integer representation: 0.10..0, 0.010..0, 0.110..0
Half == 2^(INTERVAL_BITS - 1)
OneFourth == 2^(INTERVAL_BITS - 2)
ThreeFourths == 3 * 2^(INTERVAL_BITS - 2)

\* the bits a BitBuffer holds, in insertion order
BufferBits(b) ==
    BitIterator_from_bytes(b.full_bytes)
        \o [k \in 1 .. b.current_idx |-> (b.current_byte \div 2^(8 - k)) % 2 = 1]

Repeat(x, n) == [k \in 1 .. n |-> x]

\* the MSB-first packing of a bit sequence, the last byte zero-padded
RECURSIVE Pack(_)
Pack(bits) ==
    IF bits = <<>> THEN <<>>
    ELSE IF Len(bits) < 8 THEN Pack(bits \o Repeat(FALSE, 8 - Len(bits)))
    ELSE LET byte == (IF bits[1] THEN 128 ELSE 0) + (IF bits[2] THEN 64 ELSE 0)
                     + (IF bits[3] THEN 32 ELSE 0) + (IF bits[4] THEN 16 ELSE 0)
                     + (IF bits[5] THEN 8 ELSE 0) + (IF bits[6] THEN 4 ELSE 0)
                     + (IF bits[7] THEN 2 ELSE 0) + (IF bits[8] THEN 1 ELSE 0)
         IN <<byte>> \o Pack(SubSeq(bits, 9, Len(bits)))

\* the last load_symbol call, if any, returned Ok
AfterOkCall == input = <<>> \/ input[Len(input)].status = "ok"

\* C2: encoder invariant.  After Compressor::new and after every load_symbol
\* that returns Ok the interval is in NoConvergence: get_state says so, low's
\* top bit is 0, high's top bit is 1, and it is not the case that low >= 1/4
\* and high < 3/4.
C2_EncoderNoConvergence ==
    (phase = "encoding" /\ AfterOkCall) =>
        /\ get_state(enc.interval) = NoConvergence
        /\ TopBit(enc.interval.low) = 0
        /\ TopBit(enc.interval.high) = 1
        /\ ~(enc.interval.low >= OneFourth /\ enc.interval.high < ThreeFourths)

\* what get_state alone reports after a successful call
C2_GetStateOnly ==
    (phase = "encoding" /\ AfterOkCall) => get_state(enc.interval) = NoConvergence

\* the compressor states at the head of the loop of process_interval_state
RECURSIVE LoopHeads(_)
LoopHeads(c) ==
    IF get_state(c.interval).state = "NoConvergence" THEN {c}
    ELSE LET r == Compressor_process_step(c)
         IN IF r.status = "err" THEN {c} ELSE {c} \cup LoopHeads(r.c)

\* the loop heads of every process_interval_state run of load_symbol(c, symbol)
RECURSIVE LoadLoopHeads(_, _, _)
LoadLoopHeads(c, symbol, seen) ==
    LET g == Model_get_cfi(model, symbol)
        u == update(c.interval, g.cfi, overflow_checks)
        c0 == [c EXCEPT !.interval = u.itv]
        p == Compressor_process_interval_state(c0)
    IN IF g.status \in {"UnsupportedSymbol", "EmptyCfi"} \/ u.status = "panic" THEN {}
       ELSE IF g.status = "IndexCfi" \/ p.status = "err"
               \/ p.c.interval \in seen \cup {c.interval}
       THEN LoopHeads(c0)
       ELSE LoopHeads(c0) \cup LoadLoopHeads(p.c, symbol, seen \cup {c.interval})

\* a Converging(b) step from c appends b, then !b outstanding_bits times,
\* and leaves outstanding_bits at 0
ConvergingStepEmits(c) ==
    LET st == get_state(c.interval)
        c1 == Compressor_process_step(c).c
    IN st.state = "Converging" =>
          /\ BufferBits(c1.output)
                = (BufferBits(c.output) \o <<st.bit>>) \o Repeat(~st.bit, c.outstanding_bits)
          /\ c1.outstanding_bits = 0

C3_OutstandingAlwaysZero ==
    last.op = "load_symbol" =>
        \A c \in LoadLoopHeads(last.before, last.symbol, {}) : c.outstanding_bits = 0

\* n consecutive append(bit) calls
RECURSIVE AppendN(_, _, _)
AppendN(b, bit, n) == IF n = 0 THEN b ELSE AppendN(append(b, bit), bit, n - 1)

\* C4: append_repeated(b, n) leaves the buffer as n consecutive append(b)
\* calls do: the same full_bytes, current_byte and current_idx, from every
\* buffer state and for every n >= 0.
C4_AppendRepeatedIsAppends ==
    last.op = "append_repeated" => buf = AppendN(last.before, last.bit, last.repetitions)

\* the CFI is well formed and the interval is at least as wide as its total
C5_Precondition(i, cfi) ==
    /\ i.low < i.high
    /\ cfi.start < cfi.end /\ cfi.end <= cfi.total
    /\ i.high - i.low + 1 >= cfi.total

\* update succeeded with the narrowed boundaries, inside the old interval
C5_Narrowed ==
    LET i == last.before
        cfi == last.cfi
        width == i.high - i.low + 1
    IN /\ last.status = "ok"
       /\ itv.low = i.low + ((width * cfi.start) \div cfi.total)
       /\ itv.high = i.low + ((width * cfi.end) \div cfi.total) - 1
       /\ itv.low < itv.high
       /\ i.low <= itv.low
       /\ itv.high <= i.high

\* C5 as claimed: for low < high, start < end <= total and
\* high - low + 1 >= total, update succeeds and narrows the interval.
C5_UpdateNarrowsClaimed ==
    (last.op = "update" /\ C5_Precondition(last.before, last.cfi)) => C5_Narrowed

\* C5 as amended: for low < high, start < end <= total and
\* high - low + 1 >= 2 * total, update succeeds and yields
\* low' = low + floor(width*start/total), high' = low + floor(width*end/total) - 1
\* with low' < high', low <= low' and high' <= high.
C5_UpdateNarrows ==
    (/\ last.op = "update"
     /\ C5_Precondition(last.before, last.cfi)
     /\ last.before.high - last.before.low + 1 >= 2 * last.cfi.total) => C5_Narrowed

\* update was applied to an interval exactly twice as wide as the total of
\* a CFI of frequency 1 and moved both boundaries
C5_Witness ==
    /\ last.op = "update"
    /\ C5_Precondition(last.before, last.cfi)
    /\ last.before.high - last.before.low + 1 = 2 * last.cfi.total
    /\ last.cfi.end = last.cfi.start + 1
    /\ last.before.low < itv.low
    /\ itv.high < last.before.high

\* C6: in every state reached from full_interval by update, set_boundaries,
\* set_low and set_high calls, failed or not, low < high.
C6_LowBelowHigh == itv.low < itv.high

\* a mutator has just refused boundaries on an interval that is not the full one
C6_Witness ==
    /\ last.op \in {"update", "set_boundaries", "set_low", "set_high"}
    /\ ~last.ok
    /\ itv # full_interval
    /\ itv.high = itv.low + 1

\* C7: get_state returns Converging(b) exactly when low and high share their
\* top bit, b being that bit: Converging(true) iff low's top bit is 1,
\* Converging(false) iff high's top bit is 0.
C7_ConvergingIffSharedTopBit ==
    LET st == get_state(itv)
    IN /\ st.state = "Converging" <=> TopBit(itv.low) = TopBit(itv.high)
       /\ st = Converging(TRUE) <=> TopBit(itv.low) = 1
       /\ st = Converging(FALSE) <=> TopBit(itv.high) = 0

\* C8: when low and high do not share their top bit, get_state returns
\* NearConvergence exactly when low is in [1/4, 1/2) and high in [1/2, 3/4),
\* and NoConvergence otherwise.
C8_NearConvergenceIffStraddle ==
    LET st == get_state(itv)
        straddle == /\ OneFourth <= itv.low /\ itv.low < Half
                    /\ Half <= itv.high /\ itv.high < ThreeFourths
    IN TopBit(itv.low) # TopBit(itv.high) =>
          /\ st.state = "NearConvergence" <=> straddle
          /\ st.state = "NoConvergence" <=> ~straddle

\* get_state never returns NearConvergence
C8_NeverNearConvergence == get_state(itv).state # "NearConvergence"

\* C9: finalize emits outstanding_bits + 2 further bits, b = the second most
\* significant bit of low and then !b repeated outstanding_bits + 1 times,
\* and returns the complete bytes followed by the zero-padded leftover byte.
C9_FinalizeEmits ==
    last.op = "finalize" =>
        LET c == last.before
            b == (c.interval.low \div 2^(INTERVAL_BITS - 2)) % 2 = 1
            bits == (BufferBits(c.output) \o <<b>>) \o Repeat(~b, c.outstanding_bits + 1)
        IN last.bytes = Pack(bits)

\* C10: the bytes handed out by the load_symbol calls and by finalize are the
\* MSB-first packing of the emitted bits in emission order, the last byte
\* zero-padded; there are ceil(bits/8) of them, and after each successful
\* load_symbol fewer than 8 bits stay buffered.
C10_StreamIsPackedBits ==
    /\ (phase = "encoding" /\ AfterOkCall) =>
          /\ len(enc.output) < 8
          /\ stream = SubSeq(Pack(enc.emitted), 1, Len(enc.emitted) \div 8)
    /\ phase \in {"finalized", "decoding"} =>
          /\ stream = Pack(enc.emitted)
          /\ Len(stream) = (Len(enc.emitted) + 7) \div 8

\* the parts of C10 about the number of bytes and the buffered bits
C10_LengthsOnly ==
    /\ (phase = "encoding" /\ AfterOkCall) =>
          /\ len(enc.output) < 8
          /\ Len(stream) = Len(enc.emitted) \div 8
    /\ phase \in {"finalized", "decoding"} =>
          Len(stream) = (Len(enc.emitted) + 7) \div 8

\* the errors of Model::get_cfi
ModelErrors == {"UnsupportedSymbol", "EmptyCfi"}

\* C15: when model.get_cfi(symbol) fails with UnsupportedSymbol or EmptyCfi,
\* load_symbol returns that error, hands out no byte, and leaves the interval,
\* outstanding_bits and the output buffer as they were; it returns these
\* errors in no other case.
C15_ModelErrorSurfaces ==
    last.op = "load_symbol" =>
        /\ Model_get_cfi(model, last.symbol).status \in ModelErrors =>
              /\ last.status = Model_get_cfi(model, last.symbol).status
              /\ last.bytes = <<>>
              /\ enc = last.before
        /\ last.status \in ModelErrors =>
              last.status = Model_get_cfi(model, last.symbol).status

\* a load_symbol call failed with a model error on a compressor that had
\* already narrowed its interval and emitted bits
C15_Witness ==
    /\ last.op = "load_symbol"
    /\ last.status \in ModelErrors
    /\ last.before.emitted # <<>>
    /\ last.before.interval # full_interval

----------------------------------------------------------------------------
(* Properties of the decompressor over an arbitrary bit source *)

\* a get_next_byte call has returned Ok(None) or an error
DecoderEnded == last.op = "get_next_byte" /\ last.result.kind # "Some"

\* the call that ended the decoding returned Ok(None), or DecompressionTimeout
\* after INTERVAL_BITS zero bits were read past the end of the source
EndsWithEofOrTimeout ==
    DecoderEnded =>
        \/ last.result.kind = "None"
        \/ /\ last.result.kind = "DecompressionTimeout"
           /\ last.before.timeout_bits >= INTERVAL_BITS

\* C11: for every finite bit source, repeated get_next_byte calls eventually
\* return Ok(None) or an error, and a call that ends the decoding without an
\* EOF returns DecompressionTimeout, after INTERVAL_BITS synthetic zero bits.
C11_DecoderEnds == <>DecoderEnded /\ []EndsWithEofOrTimeout

\* C13: a get_next_byte call entered with timeout_bits >= INTERVAL_BITS returns
\* DecompressionTimeout and leaves interval, value, timeout_bits and the bit
\* source as they were; DecompressionTimeout is returned by no check made with
\* timeout_bits < INTERVAL_BITS.
C13_TimeoutAtEntry ==
    last.op = "get_next_byte" =>
        /\ last.before.timeout_bits >= INTERVAL_BITS =>
              /\ last.result.kind = "DecompressionTimeout"
              /\ dec = last.before
        /\ last.result.kind = "DecompressionTimeout" =>
              dec.timeout_bits >= INTERVAL_BITS

\* a call entered with INTERVAL_BITS zero bits read has timed out
C13_Witness ==
    /\ last.op = "get_next_byte"
    /\ last.before.timeout_bits >= INTERVAL_BITS
    /\ last.result.kind = "DecompressionTimeout"

\* the number made of the first INTERVAL_BITS bits of a source, the first bit
\* the most significant, with zeros in place of the bits the source lacks
PrefixValue(bits) ==
    LET Weight(k) == IF k <= Len(bits) /\ bits[k] THEN 2^(INTERVAL_BITS - k) ELSE 0
        Sum[k \in 0 .. INTERVAL_BITS] == IF k = 0 THEN 0 ELSE Sum[k - 1] + Weight(k)
    IN Sum[INTERVAL_BITS]

\* the number of get_next_bit calls the source answered
Supplied == Len(last.bits) - Len(dec.bits_iter)

\* C14: after Decompressor::new, value is the first INTERVAL_BITS bits of the
\* source, most significant first, with zeros for missing bits; in every
\* state timeout_bits is the number of bits requested after the source was
\* depleted, and no call decreases it.
C14_ValueAndTimeoutBits ==
    /\ last.op = "Decompressor_new" => dec.value = PrefixValue(last.bits)
    /\ dec.timeout_bits = dec.requested - Supplied
    /\ dec.timeout_bits > 0 => dec.bits_iter = <<>>
    /\ last.op = "get_next_byte" => dec.timeout_bits >= last.before.timeout_bits

\* a source shorter than INTERVAL_BITS whose decoding read zero bits both at
\* construction and in a later shift
C14_Witness ==
    /\ last.op = "get_next_byte"
    /\ 0 < Len(last.bits) /\ Len(last.bits) < INTERVAL_BITS
    /\ last.before.timeout_bits = INTERVAL_BITS - Len(last.bits)
    /\ dec.timeout_bits > last.before.timeout_bits

----------------------------------------------------------------------------
(* Termination of single calls *)

\* the last call was a load_symbol or get_next_byte call that never returns
CallDiverged ==
    \/ last.op = "load_symbol" /\ last.status = "diverged"
    \/ last.op = "get_next_byte" /\ last.result.kind = "Diverged"

\* C12: every load_symbol call and every get_next_byte call returns, for every
\* symbol of the alphabet, Esc included, under both reference models: the
\* retry after an escape CFI ends in an index CFI or an error.
C12_CallsTerminate == ~CallDiverged

----------------------------------------------------------------------------
(* Properties of the frequency tables *)

\* C16: after MutableFrequencyTable::new and any add_frequency calls, the
\* Fenwick prefix sum over all entries equals the cached total and the total
\* is at most Frequency::max(); an add_frequency whose total would exceed
\* Frequency::max() changes neither the tree nor the total.
C16_TotalIsFenwickSum ==
    table.kind = "mutable" =>
        /\ get_sum(table.fenwick, FenwickTree_len(table.fenwick)) = table.total
        /\ table.total <= ConstrainedNum_max(FREQUENCY_BITS)
        /\ (/\ last.op = "add_frequency"
            /\ last.before.total + last.amount > ConstrainedNum_max(FREQUENCY_BITS))
              => /\ table.fenwick = last.before.fenwick
                 /\ table.total = last.before.total

\* C17: get_cfi(i) of a MutableFrequencyTable with N entries is
\* Some(Cfi{sum(i), sum(i + 1), total}) when i < N and the frequency at i is
\* not zero, the last index included, and None when i >= N or the frequency
\* at i is zero.
C17_MutableGetCfi ==
    (last.op = "get_cfi" /\ table.kind = "mutable") =>
        LET start == get_sum(table.fenwick, last.index)
            end == get_sum(table.fenwick, last.index + 1)
        IN /\ last.result.status = "ok"
           /\ last.result.cfi =
                 IF last.index < FenwickTree_len(table.fenwick) /\ start # end
                 THEN <<Cfi(start, end, table.total)>>
                 ELSE <<>>

\* the sum of the first j values
RECURSIVE PrefixSum(_, _)
PrefixSum(values, j) == IF j = 0 THEN 0 ELSE PrefixSum(values, j - 1) + values[j]

\* C18: after FenwickTree::from(values) and any add(i, d) calls with i < N,
\* get_sum(j) is the sum of the current values at positions 0..j-1 for every
\* j in 0..=N; an add(i, d) raises get_sum(j) by d for every j > i and leaves
\* it unchanged for every j <= i.
C18_FenwickPrefixSums ==
    table.kind = "fenwick" =>
        /\ \A j \in 0 .. FenwickTree_len(table.data) :
              get_sum(table.data, j) = PrefixSum(table.values, j)
        /\ (last.op = "add" /\ last.index < FenwickTree_len(table.data)) =>
              \A j \in 0 .. FenwickTree_len(table.data) :
                  get_sum(table.data, j) =
                      get_sum(last.before.data, j) + (IF j > last.index THEN last.amount ELSE 0)

\* an add at the first index of a tree of MaxEntries values, not all zero:
\* the sums above the index are raised through the parents of the entry
C18_Witness ==
    /\ table.kind = "fenwick"
    /\ last.op = "add"
    /\ last.index = 0
    /\ FenwickTree_len(table.data) = MaxEntries
    /\ PrefixSum(last.before.values, MaxEntries) > 1
    /\ get_sum(table.data, MaxEntries) = get_sum(last.before.data, MaxEntries) + last.amount

\* C19: get_cfi(i) of a StaticFrequencyTable with N entries and cumulative
\* array cum is None iff i >= N or cum[i] = cum[i + 1]; otherwise it is
\* Cfi{cum[i], cum[i + 1], cum[N]}, with start < end <= total.
C19_StaticGetCfi ==
    (last.op = "get_cfi" /\ table.kind = "static") =>
        LET cum == table.cum_freqs
            N == Len(cum) - 1
            i == last.index
            result == last.result.cfi
        IN /\ cum[1] = 0
           /\ \A k \in 1 .. N : cum[k] <= cum[k + 1]
           /\ result = <<>> <=> (i >= N \/ cum[i + 1] = cum[i + 2])
           /\ result # <<>> =>
                 /\ result[1] = Cfi(cum[i + 1], cum[i + 2], cum[N + 1])
                 /\ result[1].start < result[1].end
                 /\ result[1].end <= result[1].total

\* get_cfi returned a CFI for an entry that follows an entry of frequency zero
C19_Witness ==
    /\ last.op = "get_cfi" /\ table.kind = "static"
    /\ last.index > 0
    /\ last.result.cfi # <<>>
    /\ table.cum_freqs[last.index] = table.cum_freqs[last.index + 1]

\* the number of entries of the driven table
Entries ==
    IF table.kind = "static" THEN Len(table.cum_freqs) - 1
    ELSE FenwickTree_len(table.fenwick)

\* the cumulative frequency below entry i of the driven table
Cum(i) ==
    IF table.kind = "static" THEN table.cum_freqs[i + 1] ELSE get_sum(table.fenwick, i)

\* get_index(cf) returned the index whose CFI holds cf, or None when cf is
\* not below the sum of all entries
GetIndexIsRight ==
    IF last.cf < Cum(Entries)
    THEN /\ last.result.kind = "Some"
         /\ last.result.index < Entries
         /\ Cum(last.result.index) <= last.cf
         /\ last.cf < Cum(last.result.index + 1)
    ELSE last.result.kind = "None"

\* C20: for every frequency table, static and mutable, with any number of
\* entries, zero frequencies allowed, and every cumulative frequency cf,
\* get_index(cf) returns the index i with cum[i] <= cf < cum[i + 1] when cf is
\* below the total and None otherwise; the search ends and neither indexes
\* nor subtracts out of range.
C20_GetIndex == last.op = "get_index" => GetIndexIsRight

\* the same for the tables that have an entry
C20_GetIndexNonEmpty == (last.op = "get_index" /\ Entries > 0) => GetIndexIsRight

\* C21: StaticFrequencyTable::new(freqs) fails exactly when some prefix sum
\* of freqs exceeds Frequency::max(); otherwise it succeeds with a
\* non-decreasing cumulative array of length N + 1 that starts at 0.
C21_StaticNewFailsOnOverflow ==
    last.op = "StaticFrequencyTable_new" =>
        LET N == Len(last.frequencies)
        IN /\ last.status = "err" <=>
                 \E k \in 1 .. N :
                     PrefixSum(last.frequencies, k) > ConstrainedNum_max(FREQUENCY_BITS)
           /\ last.status = "ok" =>
                 /\ table.kind = "static"
                 /\ Len(table.cum_freqs) = N + 1
                 /\ table.cum_freqs[1] = 0
                 /\ \A k \in 1 .. N : table.cum_freqs[k] <= table.cum_freqs[k + 1]
                 /\ \A k \in 0 .. N : table.cum_freqs[k + 1] = PrefixSum(last.frequencies, k)

\* new was given Frequency::max() followed by one, and failed
C21_Witness ==
    /\ last.op = "StaticFrequencyTable_new"
    /\ last.frequencies = <<ConstrainedNum_max(FREQUENCY_BITS), 1>>
    /\ last.status = "err"

\* C22: after every sequence of append and append_repeated calls on a new
\* buffer, the buffer's bit stream (the full bytes MSB first, then the first
\* current_idx bits of the partial byte) is the appended bits in order,
\* len() is the number of appended bits not yet taken out, current_idx is in
\* [0, 8) and the unused low-order bits of the partial byte are zero.
\* Stated call by call: an append or append_repeated adds its bits to the end
\* of the stream, get_complete_bytes takes 8 bits per returned byte.
C22_BufferHoldsAppendedBits ==
    /\ last.op \in {"append", "append_repeated"} =>
          /\ BufferBits(buf) = BufferBits(last.before) \o Repeat(last.bit, last.repetitions)
          /\ len(buf) = len(last.before) + last.repetitions
    /\ last.op = "get_complete_bytes" =>
          len(buf) = len(last.before) - 8 * Len(last.result)
    /\ buf.current_idx \in 0 .. 7
    /\ buf.current_byte % 2^(8 - buf.current_idx) = 0

\* C23: get_complete_bytes returns floor(len() / 8) bytes, the complete bytes
\* of the buffer in their order, removes them (a second call returns nothing,
\* and a byte becomes complete only when 8 more bits have arrived) and leaves
\* current_byte and current_idx as they were.
C23_GetCompleteBytes ==
    /\ last.op = "get_complete_bytes" =>
          /\ Len(last.result) = len(last.before) \div 8
          /\ last.result = last.before.full_bytes
          /\ BitIterator_from_bytes(last.result)
                = SubSeq(BufferBits(last.before), 1, 8 * (len(last.before) \div 8))
          /\ get_complete_bytes(buf).bytes = <<>>
          /\ len(buf) = len(last.before) % 8
          /\ buf.current_byte = last.before.current_byte
          /\ buf.current_idx = last.before.current_idx
    /\ last.op \in {"append", "append_repeated"} =>
          Len(get_complete_bytes(buf).bytes)
            = Len(last.before.full_bytes)
              + (last.before.current_idx + last.repetitions) \div 8

\* get_complete_bytes was called on a buffer with a complete byte and a
\* partial byte
C23_Witness ==
    /\ last.op = "get_complete_bytes"
    /\ Len(last.result) >= 1
    /\ last.before.current_idx > 0

\* C24: a BitIterator built from a BitBuffer yields len() bits, the buffer's
\* bits in order (every full byte MSB first, then the first current_idx bits
\* of the partial byte); built from a byte sequence S it yields 8 * |S| bits
\* that regrouped MSB first are S; after the last bit it returns None.
C24_BitIteratorYieldsTheBits ==
    /\ last.op = "BitIterator_from_buffer" =>
          /\ Len(last.result) = len(last.before)
          /\ last.result = BufferBits(last.before)
          /\ last.after_end = <<>>
    /\ last.op = "BitIterator_from" =>
          /\ Len(last.result) = 8 * Len(last.bytes)
          /\ Pack(last.result) = last.bytes
          /\ last.after_end = <<>>

\* an iterator was built from a buffer with a full byte and a partial byte
C24_Witness ==
    /\ last.op = "BitIterator_from_buffer"
    /\ Len(last.before.full_bytes) >= 1
    /\ last.before.current_idx > 0
    /\ last.before.current_byte # 0

\* the bits of a stream after its last byte boundary
LeftoverBits(bits) == SubSeq(bits, Len(bits) - (Len(bits) % 8) + 1, Len(bits))

\* C25: get_leftover_bits returns None iff the number of bits in the buffer
\* is a multiple of 8; otherwise the byte whose top current_idx bits are the
\* leftover bits in insertion order and whose other bits are zero; the call
\* changes nothing in the buffer.
C25_GetLeftoverBits ==
    last.op = "get_leftover_bits" =>
        /\ last.result = <<>> <=> len(last.before) % 8 = 0
        /\ last.result = <<>> <=> last.before.current_idx = 0
        /\ last.prior.op \in {"append", "append_repeated"} =>
              last.result = Pack(LeftoverBits(BufferBits(last.prior.before)
                                              \o Repeat(last.prior.bit,
                                                        last.prior.repetitions)))
        /\ last.result # <<>> =>
              last.result[1] % 2^(8 - last.before.current_idx) = 0
        /\ buf = last.before

\* C26: for every width B in [1, W], W the width of CalculationsType,
\* ConstrainedNum::<B>::new(x) succeeds iff x < 2^B, and it fails for B = 0
\* and B > W; on every valid value every bitwise operator (&, |, ^, !, <<,
\* >>) with any right-hand operand returns a value below 2^B, the result of
\* |, ^, ! and << being the plain result masked with 2^B - 1.
C26_ConstrainedNum ==
    /\ last.op = "new" =>
          (last.status = "ok" <=>
              /\ last.BITS \in 1 .. CALCULATIONS_TYPE_BITS
              /\ last.value < 2^last.BITS)
    /\ last.op \in NumOperators =>
          /\ last.result.status = "ok"
          /\ last.result.value < 2^last.BITS
          /\ last.op = "bitor" =>
                last.result.value = BitOr(last.value, last.rhs) % 2^last.BITS
          /\ last.op = "bitxor" =>
                last.result.value = BitXor(last.value, last.rhs) % 2^last.BITS
          /\ last.op = "not" =>
                last.result.value
                  = (2^CALCULATIONS_TYPE_BITS - 1 - last.value) % 2^last.BITS
          /\ last.op = "shl" /\ last.rhs < CALCULATIONS_TYPE_BITS =>
                last.result.value
                  = ((last.value * 2^last.rhs) % 2^CALCULATIONS_TYPE_BITS) % 2^last.BITS

\* the same with the shift amounts below the width of CalculationsType
C26_ShiftsBelowWidth ==
    \/ last.op \in {"shr", "shl"} /\ last.rhs >= CALCULATIONS_TYPE_BITS
    \/ C26_ConstrainedNum

\* C27: DefaultSIM is a bijection between the symbols and the indices below
\* supported_symbols_count(): Byte(b) <-> b, Eof <-> the number of byte values
\* (256), Esc <-> one more (257); get_symbol(get_index(s)) = s for every
\* symbol, get_index(get_symbol(i)) = i for every index below the count,
\* get_index(s) is below the count, and get_symbol(i) is None from the count on.
C27_DefaultSIMIsBijection ==
    /\ last.op = "DefaultSIM_get_index" =>
          /\ last.result = <<CASE last.symbol.tag = "Byte" -> last.symbol.byte
                              [] last.symbol.tag = "Eof" -> NumBytes
                              [] last.symbol.tag = "Esc" -> NumBytes + 1>>
          /\ last.result[1] < supported_symbols_count
          /\ DefaultSIM_get_symbol(last.result[1]) = <<last.symbol>>
    /\ last.op = "DefaultSIM_get_symbol" =>
          IF last.index < UNIQUE_SYMBOLS_AMOUNT
          THEN /\ last.result \in {<<symbol>> : symbol \in Symbols}
               /\ DefaultSIM_get_index(last.result[1]) = <<last.index>>
          ELSE last.result = <<>>

\* get_symbol was asked for the last index and returned Esc
C27_Witness ==
    /\ last.op = "DefaultSIM_get_symbol"
    /\ last.index = UNIQUE_SYMBOLS_AMOUNT - 1
    /\ last.result = <<Esc>>

\* the number of symbols the uniform model supports
Supported == IF model.kind = "uniform" THEN UNIQUE_SYMBOLS_AMOUNT ELSE model.num_symbols

\* the index is the one of the escape symbol
IsEscapeIndex(index) ==
    IF model.kind = "uniform" THEN index = UNIQUE_SYMBOLS_AMOUNT - 1
    ELSE model.escape_idx = <<index>>

\* C28: the uniform model returns for an index idx below the supported count
\* the CFI {idx, idx + 1, supported}, as an EscapeCfi iff the symbol is Esc
\* (idx is the configured escape index) and as an IndexCfi otherwise; an
\* index from the supported count on is rejected as unsupported;
\* get_symbol(cf) returns the entry of index cf when cf is below the
\* supported count and None otherwise; get_total is the supported count.
C28_UniformModel ==
    /\ last.op = "get_cfi" /\ model.kind = "uniform" =>
          LET idx == CASE last.symbol.tag = "Byte" -> last.symbol.byte
                       [] last.symbol.tag = "Eof" -> NumBytes
                       [] last.symbol.tag = "Esc" -> NumBytes + 1
          IN /\ last.result.cfi = Cfi(idx, idx + 1, Supported)
             /\ last.result.status
                  = IF last.symbol = Esc THEN "EscapeCfi" ELSE "IndexCfi"
    /\ last.op = "get_cfi_of_index" =>
          IF last.index < Supported
          THEN /\ last.result.cfi = Cfi(last.index, last.index + 1, Supported)
               /\ last.result.status
                    = IF IsEscapeIndex(last.index) THEN "EscapeCfi" ELSE "IndexCfi"
          ELSE last.result.status = "UnsupportedIndex"
    /\ last.op = "get_symbol" /\ model.kind = "uniform" =>
          IF last.cumulative_frequency < Supported
          THEN /\ last.result # <<>>
               /\ DefaultSIM_get_index(last.result[1]) = <<last.cumulative_frequency>>
          ELSE last.result = <<>>
    /\ last.op = "get_symbol" /\ model.kind = "uniform_with_escape_idx" =>
          last.result = IF last.cumulative_frequency < Supported
                        THEN <<last.cumulative_frequency>> ELSE <<>>
    /\ last.op = "get_total" /\ model.kind # "custom" => last.result = Supported

\* the model with a configured escape index returned an EscapeCfi
C28_Witness ==
    /\ last.op = "get_cfi_of_index"
    /\ model.kind = "uniform_with_escape_idx"
    /\ last.index > 0
    /\ last.result.status = "EscapeCfi"

\* C29: CustomDistributionModel::new fails when the number of frequencies is
\* not sim.supported_symbols_count() or their sum is above Frequency::max()
\* (and only then); get_cfi(symbol) returns UnsupportedSymbol iff the SIM
\* has no index for the symbol, EmptyCfi iff it has one and the table's CFI
\* of that index is empty, and otherwise the table's CFI of that index, as an
\* EscapeCfi iff the symbol is Esc and as an IndexCfi otherwise.
C29_CustomModel ==
    /\ last.op = "CustomDistributionModel_new" =>
          /\ last.status = "err" <=>
                \/ Len(last.frequencies) # supported_symbols_count
                \/ PrefixSum(last.frequencies, Len(last.frequencies))
                     > ConstrainedNum_max(FREQUENCY_BITS)
          /\ last.status = "ok" =>
                /\ model.kind = "custom"
                /\ \A k \in 0 .. Len(last.frequencies) :
                      model.cum_freqs[k + 1] = PrefixSum(last.frequencies, k)
    /\ last.op = "get_cfi" /\ model.kind = "custom" =>
          LET index == DefaultSIM_get_index(last.symbol)
              start == model.cum_freqs[index[1] + 1]
              end == model.cum_freqs[index[1] + 2]
          IN /\ last.result.status = "UnsupportedSymbol" <=> index = <<>>
             /\ last.result.status = "EmptyCfi" <=> index # <<>> /\ start = end
             /\ index # <<>> /\ start # end =>
                   /\ last.result.cfi
                        = Cfi(start, end, model.cum_freqs[Len(model.cum_freqs)])
                   /\ last.result.status
                        = IF last.symbol = Esc THEN "EscapeCfi" ELSE "IndexCfi"

\* a custom model was asked for the CFI of a symbol of frequency zero
C29_Witness ==
    /\ last.op = "get_cfi"
    /\ model.kind = "custom"
    /\ last.result.status = "EmptyCfi"

\* every CFI with start < end <= total <= Frequency::max()
WellFormedCfis ==
    {c \in [start : Frequency, end : Frequency, total : Frequency] :
        c.start < c.end /\ c.end <= c.total}

\* C30: in every state the encoder reaches (the interval in NoConvergence
\* after any sequence of load_symbol calls) and for every CFI with
\* start < end <= total <= Frequency::max(), a frequency of 1 in a total
\* near Frequency::max() included, Interval::update succeeds: no overflow
\* error, and the new boundaries have low < high.
C30_UpdateSucceedsWhereReachable ==
    (/\ phase = "encoding"
     /\ AfterOkCall
     /\ get_state(enc.interval) = NoConvergence) =>
        \A cfi \in WellFormedCfis :
            LET r == update(enc.interval, cfi, overflow_checks)
            IN r.status = "ok" /\ r.itv.low < r.itv.high

\* C31: a failure of Interval::update inside Compressor::load_symbol or
\* Decompressor::get_next_byte is propagated, the call returns an error:
\* load_symbol never returns Ok for a symbol whose CFI was not applied to
\* the interval, get_next_byte never returns a byte or None for one.
C31_UpdateFailurePropagates ==
    /\ last.op = "load_symbol" =>
          LET g == Model_get_cfi(model, last.symbol)
          IN (/\ g.status \in {"IndexCfi", "EscapeCfi"}
              /\ update(last.before.interval, g.cfi, overflow_checks).status = "err")
                 => last.status # "ok"
    /\ last.op = "get_next_byte" =>
          LET cf == calc_cum_freq(last.before, model, overflow_checks)
              symbol == IF cf.status = "panic" \/ ~ConstrainedNum_new_ok(FREQUENCY_BITS, cf.cf)
                        THEN <<>> ELSE Model_get_symbol(model, cf.cf)
              g == Model_get_cfi(model, symbol[1])
          IN (/\ ~timed_out(last.before)
              /\ symbol # <<>>
              /\ g.status \in {"IndexCfi", "EscapeCfi"}
              /\ update(last.before.interval, g.cfi, overflow_checks).status = "err")
                 => last.result.kind \notin {"Some", "None"}

\* C32: BitsSystem::<BITS>::new fails with NotEnoughBitsForSystemError when
\* BITS < 2; for BITS >= 2 it yields max = 2^BITS - 1, half = 2^(BITS-1),
\* one_fourth = 2^(BITS-2) and three_fourths = 3 * 2^(BITS-2), so that
\* one_fourth < half < three_fourths < max.
C32_BitsSystemConstants ==
    last.op = "BitsSystem_new" =>
        IF last.BITS < 2
        THEN last.status = "NotEnoughBitsForSystemError"
        ELSE /\ last.status = "ok"
             /\ last.system.max = 2^last.BITS - 1
             /\ last.system.half = 2^(last.BITS - 1)
             /\ last.system.one_fourth = 2^(last.BITS - 2)
             /\ last.system.three_fourths = 3 * 2^(last.BITS - 2)
             /\ last.system.one_fourth < last.system.half
             /\ last.system.half < last.system.three_fourths
             /\ last.system.three_fourths < last.system.max

\* the boundaries set_boundaries is given for a Converging or NearConvergence
\* step on the interval i keep low < high
C33_ShiftKeepsOrder(i) ==
    get_state(i).state # "NoConvergence" =>
        Compressor_process_step([Compressor_new EXCEPT !.interval = i]).status = "ok"

\* C33: the shifts of the state machine never break low < high: load_symbol
\* never returns the error of set_boundaries, and the loop of
\* process_interval_state that get_next_byte runs on the interval it updated
\* never panics; the interval an encoder or decoder holds, when it calls for a
\* step, is given boundaries with low < high.
C33_ShiftsNeverFail ==
    /\ last.op = "load_symbol" => last.status # "err"
    /\ C33_ShiftKeepsOrder(enc.interval)
    /\ dec # NoDecompressor => C33_ShiftKeepsOrder(dec.interval)
    /\ last.op = "get_next_byte" =>
          LET cf == calc_cum_freq(last.before, model, overflow_checks)
              symbol == IF cf.status = "panic" \/ ~ConstrainedNum_new_ok(FREQUENCY_BITS, cf.cf)
                        THEN <<>> ELSE Model_get_symbol(model, cf.cf)
              g == Model_get_cfi(model, symbol[1])
              u == update(last.before.interval, g.cfi, overflow_checks)
          IN (/\ ~timed_out(last.before)
              /\ symbol # <<>>
              /\ g.status \in {"IndexCfi", "EscapeCfi"}
              /\ u.status # "panic")
                 => Decompressor_process_interval_state(
                        [last.before EXCEPT !.interval = u.itv]).status = "ok"

\* the compressor after the first k load_symbol calls of the session
RECURSIVE C34_EncoderAfter(_)
C34_EncoderAfter(k) ==
    IF k = 0 THEN Compressor_new
    ELSE load_symbol(C34_EncoderAfter(k - 1), model, input[k].symbol,
                     overflow_checks, {}).c

\* what get_next_byte returns for a symbol
C34_Decoded(symbol) == IF symbol.tag = "Byte" THEN Some(symbol.byte) ELSE None

\* C34: encoder and decoder run in lockstep: fed the bytes the encoder put
\* out for a sequence of symbols it loaded, with the same model, the decoder's
\* k-th get_next_byte returns the encoder's k-th symbol and leaves the
\* decoder's interval equal to the encoder's interval after its k-th symbol.
C34_Lockstep ==
    (/\ last.op = "get_next_byte"
     /\ Len(decoded) <= Len(input)
     /\ \A j \in 1 .. Len(input) : input[j].status = "ok")
        => /\ decoded[Len(decoded)] = C34_Decoded(input[Len(decoded)].symbol)
           /\ dec.interval = C34_EncoderAfter(Len(decoded)).interval

\* C35: the decoder's window: in every state a decoder is left in by new or
\* by a get_next_byte call that did not panic, whatever bits it is given,
\* low <= value <= high; so in every get_next_byte call value - low
\* does not underflow and the cumulative frequency calc_cum_freq computes is
\* below the model's total, and neither Frequency::new nor get_symbol fails.
C35_DecoderWindow ==
    /\ (last.op = "get_next_byte" => last.result.kind # "Panic") =>
          /\ dec.interval.low <= dec.value
          /\ dec.value <= dec.interval.high
    /\ (last.op = "get_next_byte" /\ ~timed_out(last.before)) =>
          /\ last.before.interval.low <= last.before.value
          /\ calc_cum_freq(last.before, model, FALSE).cf < Model_get_total(model)
          /\ last.result.kind \notin {"FrequencyTooLarge", "NoSymbol"}
          /\ LET symbol == Model_get_symbol(model,
                                calc_cum_freq(last.before, model, FALSE).cf)
                 g == Model_get_cfi(model, symbol[1])
                 u == update(last.before.interval, g.cfi, overflow_checks)
             IN (symbol # <<>> /\ g.status \in {"IndexCfi", "EscapeCfi"}) =>
                    /\ u.itv.low <= last.before.value
                    /\ last.before.value <= u.itv.high

C35_Witness ==
    /\ last.op = "get_next_byte"
    /\ last.result.kind = "Some"
    /\ dec.requested > last.before.requested
    /\ dec.interval # last.before.interval
    /\ dec.interval.low < dec.value
    /\ dec.value < dec.interval.high

\* the session encoded a sequence that ends in its only EOF, every
\* load_symbol returned Ok, and the decoder was given the whole stream
C36_CompleteValidStream ==
    /\ input # <<>>
    /\ \A j \in 1 .. Len(input) :
          /\ input[j].status = "ok"
          /\ (input[j].symbol.tag = "Eof") <=> (j = Len(input))
          /\ input[j].symbol.tag # "Esc"
    /\ dec # NoDecompressor

\* C36: a complete valid stream never times out: given all the bytes the
\* encoder produced for a sequence ending in EOF, every get_next_byte call
\* up to and including the one that returns None is entered with
\* timeout_bits < INTERVAL_BITS, and none of them returns DecompressionTimeout.
C36_NoTimeoutBeforeEof ==
    C36_CompleteValidStream =>
        \A j \in 1 .. Len(decoded) :
            (\A i \in 1 .. (j - 1) : decoded[i].kind = "Some") =>
                /\ decoded[j].kind # "DecompressionTimeout"
                /\ (j = Len(decoded) /\ last.op = "get_next_byte") =>
                       last.before.timeout_bits < INTERVAL_BITS

\* C37: the lookups of a model agree (uniform model over the SIM, custom
\* model over a static table): for a cumulative frequency cf below
\* get_total(), get_symbol(cf) is a symbol whose get_cfi succeeds with
\* start <= cf < end; from get_total() on, get_symbol is None; and for a
\* symbol with a non-empty CFI, get_symbol is that symbol on all of
\* [start, end).
C37_LookupConsistency ==
    model.kind \in {"uniform", "custom"} =>
        /\ last.op = "get_symbol" =>
              IF last.cumulative_frequency < Model_get_total(model)
              THEN /\ last.result # <<>>
                   /\ LET g == Model_get_cfi(model, last.result[1])
                      IN /\ g.status \in {"IndexCfi", "EscapeCfi"}
                         /\ g.cfi.start <= last.cumulative_frequency
                         /\ last.cumulative_frequency < g.cfi.end
              ELSE last.result = <<>>
        /\ (last.op = "get_cfi" /\ last.result.status \in {"IndexCfi", "EscapeCfi"}) =>
              /\ last.result.cfi.start < last.result.cfi.end
              /\ \A c \in last.result.cfi.start .. (last.result.cfi.end - 1) :
                    Model_get_symbol(model, c) = <<last.symbol>>

\* a custom model with a symbol of frequency zero and a heavier symbol,
\* asked for a cumulative frequency inside the heavier symbol's share
C37_Witness ==
    /\ model.kind = "custom"
    /\ \E i \in 1 .. (Len(model.cum_freqs) - 1) : model.cum_freqs[i] = model.cum_freqs[i + 1]
    /\ last.op = "get_symbol"
    /\ last.result # <<>>
    /\ Model_get_cfi(model, last.result[1]).cfi.start < last.cumulative_frequency

\* C38: no overflow or underflow of CalculationsType: for an interval with
\* low < high and a CFI with start < end <= total, the intermediates of
\* Interval::update (width * start, width * end and
\* low + width * end / total - 1) are within [0, 2^CALCULATIONS_TYPE_BITS),
\* and so are those of calc_cum_freq for every value of the interval.
C38_NoOverflow ==
    (/\ last.op = "update"
     /\ last.cfi.start < last.cfi.end
     /\ last.cfi.end <= last.cfi.total) =>
        LET W == 2^CALCULATIONS_TYPE_BITS
            low == last.before.low
            width == last.before.high - low + 1
            high_raw == low + ((width * last.cfi.end) \div last.cfi.total) - 1
        IN /\ width * last.cfi.start < W
           /\ width * last.cfi.end < W
           /\ 0 <= high_raw
           /\ high_raw < W
           /\ last.status # "panic"
           /\ \A value \in low .. last.before.high :
                 calc_cum_freq([value |-> value, interval |-> last.before],
                               model, TRUE).status = "ok"

\* C39: a failing interval mutator changes nothing: when update,
\* set_boundaries, set_low or set_high returns an error, low and high keep
\* their values; when it succeeds, exactly the boundaries it names take the
\* new values.
C39_FailingMutatorChangesNothing ==
    /\ (last.op \in {"update", "set_boundaries", "set_low", "set_high"}
         /\ last.status # "ok") => itv = last.before
    /\ (last.op = "set_boundaries" /\ last.status = "ok") =>
          itv = [low |-> last.new_low, high |-> last.new_high]
    /\ (last.op = "set_low" /\ last.status = "ok") =>
          itv = [low |-> last.new_low, high |-> last.before.high]
    /\ (last.op = "set_high" /\ last.status = "ok") =>
          itv = [low |-> last.before.low, high |-> last.new_high]
    /\ (last.op = "update" /\ last.status = "ok") =>
          LET width == last.before.high - last.before.low + 1
          IN itv = [low |-> last.before.low
                              + ((width * last.cfi.start) \div last.cfi.total),
                    high |-> last.before.low
                               + ((width * last.cfi.end) \div last.cfi.total) - 1]

\* set_low has failed on an interval narrower than the full one, for a new
\* low that is not the low it has
C39_Witness ==
    /\ last.op = "set_low"
    /\ last.status # "ok"
    /\ last.before # full_interval
    /\ last.new_low # last.before.low

\* the steps of process_interval_state from the compressor c on, n steps
\* made: every step succeeds and doubles the width, a NearConvergence step
\* adds one to outstanding_bits, a Converging step sets it to 0, and
\* NoConvergence comes after at most INTERVAL_BITS - 1 steps
RECURSIVE C40_StepsDouble(_, _)
C40_StepsDouble(c, n) ==
    LET st == get_state(c.interval)
        r == Compressor_process_step(c)
        width(i) == i.high - i.low + 1
    IN IF st.state = "NoConvergence" THEN n <= INTERVAL_BITS - 1
       ELSE /\ n < INTERVAL_BITS - 1
            /\ r.status = "ok"
            /\ width(r.c.interval) = 2 * width(c.interval)
            /\ r.c.outstanding_bits = IF st.state = "NearConvergence"
                                      THEN c.outstanding_bits + 1 ELSE 0
            /\ C40_StepsDouble(r.c, n + 1)

\* C40: the loop of the state machine ends: from every interval with
\* low < high, process_interval_state of the encoder and of the decoder
\* reaches NoConvergence after at most INTERVAL_BITS - 1 Converging or
\* NearConvergence steps, each of which doubles the width high - low + 1;
\* in the encoder a NearConvergence step adds one to outstanding_bits and a
\* Converging step sets it to 0.
C40_LoopTerminates ==
    last.op = "process_interval_state" =>
        /\ last.status = "ok"
        /\ get_state(last.compressor.interval).state = "NoConvergence"
        /\ Len(last.compressor.emitted) + last.compressor.outstanding_bits
               <= INTERVAL_BITS - 1
        /\ last.decoder_status = "ok"
        /\ get_state(last.decompressor.interval).state = "NoConvergence"
        /\ last.decompressor.requested <= INTERVAL_BITS - 1
        /\ C40_StepsDouble([Compressor_new EXCEPT !.interval = last.before], 0)

====
